---- MODULE Spec2Model ----
(***************************************************************************)
(* Model of the skills normalisation and period aggregation code of the    *)
(* resume parser: backend/app/addPeriod.py as driven by the handler        *)
(* extract_cv_info of backend/app/main.py, and the duration parsing of     *)
(* backend/app/services/skills_service.py.                                 *)
(*                                                                         *)
(* A Python str is a sequence of text pieces whose concatenation is the    *)
(* string: a skill name is the sequence of its characters, a duration is   *)
(* the sequence of its words, blanks and punctuation marks.  A Python      *)
(* value whose type the code inspects is a record [t, v]: t the type, v    *)
(* the content.  A dict is the sequence of its entries [k, v] in insertion *)
(* order, which is the order Python iterates it in.                        *)
(***************************************************************************)
EXTENDS Integers, Sequences, FiniteSets, TLC

VARIABLES
    pc,              \* position of the handler extract_cv_info (main.py 78-101)
    now,             \* the date datetime.now() returns during the request
    results0,        \* results[0] as process returned it (main.py 77), kept for reference
    data,            \* results[0] / updated_data: the resume mapping, updated in place
    skills_periods_list, \* result of extract_skills_periods
    summed_skills,   \* the defaultdict of sum_skills_periods, in insertion order
    i,               \* index of the loop of sum_skills_periods / update_existing_skills
    best_match,      \* local best_match of the last completed loop iteration
    best_score,      \* local best_score of that iteration, as <<distance, max_len>>
    duration,        \* argument of SkillsService._parse_duration
    parsed,          \* what _parse_duration returned
    period_months,   \* what _calculate_period_months returned
    clock,           \* time of day of datetime.now(): 0 is midnight, 1 is later
    threshold,       \* argument threshold of update_existing_skills
    enhanced_data,   \* what SkillsService.enhance_skills returned
    req,             \* the in-flight requests of an extract endpoint, by request
    fs,              \* the temp directory, its files and whether the detector loaded
    llama            \* one call of extract_text_with_llama: its locals and what it did

vars == <<pc, now, results0, data, skills_periods_list, summed_skills, i, best_match,
          best_score, duration, parsed,
                   period_months, clock, threshold,
                   enhanced_data, req, fs, llama>>

----------------------------------------------------------------------------
(* Python values *)

Str(s) == [t |-> "str", v |-> s]
List(l) == [t |-> "list", v |-> l]
Dict(d) == [t |-> "dict", v |-> d]
Absent == [t |-> "absent", v |-> <<>>]
None == [t |-> "none", v |-> <<>>]
\* a value that is neither str, list nor dict (a JSON number)
Number == [t |-> "int", v |-> <<>>]
\* outcome of an expression that raises
Raise == [t |-> "raise", v |-> <<>>]
\* an int
IntOf(n) == [t |-> "int", v |-> n]
\* a datetime at midnight of the date d, the value of datetime.now(), and the
\* pair (start_date, end_date)
Datetime(d) == [t |-> "datetime", v |-> d, tod |-> 0]
datetime_now == [t |-> "datetime", v |-> now, tod |-> clock]
Tuple(start, end) == [t |-> "tuple", start |-> start, end |-> end]

\* isinstance(data, dict) of the top-level value: the resume mapping is the
\* record of its keys, every other top-level value is a tagged value
isinstance_dict(d) == "t" \notin DOMAIN d

\* `key in data` for a top-level str or list: a substring of the text (a key
\* name in the text is one of its pieces), an element of the list
key_in(key, d) ==
    CASE d.t = "str" -> \E k \in 1..Len(d.v) : d.v[k] = key
      [] d.t = "list" ->
            \E k \in 1..Len(d.v) :
                /\ "t" \in DOMAIN d.v[k]
                /\ d.v[k].t = "str"
                /\ d.v[k].v = <<key>>

\* Python truthiness of a value (`if x`, `x and ...`)
Truthy(x) ==
    CASE x.t \in {"str", "list", "dict"} -> Len(x.v) > 0
      [] x.t \in {"none", "absent"} -> FALSE
      [] OTHER -> TRUE

Min(a, b) == IF a <= b THEN a ELSE b
Max(a, b) == IF a >= b THEN a ELSE b

----------------------------------------------------------------------------
(* str methods *)

\* str.lower() of the pieces it changes: capital letters, and the words of
\* durations written Capitalised or in UPPER case
LowerOf ==
    [A |-> "a", B |-> "b", C |-> "c", D |-> "d", E |-> "e", F |-> "f",
     G |-> "g", H |-> "h", I |-> "i", J |-> "j", K |-> "k", L |-> "l",
     M |-> "m", N |-> "n", O |-> "o", P |-> "p", Q |-> "q", R |-> "r",
     S |-> "s", T |-> "t", U |-> "u", V |-> "v", W |-> "w", X |-> "x",
     Y |-> "y", Z |-> "z", Jan |-> "jan", JAN |-> "jan", Feb |-> "feb",
     FEB |-> "feb", Mar |-> "mar", MAR |-> "mar", January |-> "january",
     JANUARY |-> "january", March |-> "march", MARCH |-> "march",
     Present |-> "present", PRESENT |-> "present", Current |-> "current",
     CURRENT |-> "current", To |-> "to", TO |-> "to", Not |-> "not",
     NOT |-> "not", Date |-> "date", DATE |-> "date",
     Presently |-> "presently", PRESENTLY |-> "presently"]

\* str.upper() of the pieces it changes
UpperOf ==
    [a |-> "A", b |-> "B", c |-> "C", d |-> "D", e |-> "E", f |-> "F",
     g |-> "G", h |-> "H", i |-> "I", j |-> "J", k |-> "K", l |-> "L",
     m |-> "M", n |-> "N", o |-> "O", p |-> "P", q |-> "Q", r |-> "R",
     s |-> "S", t |-> "T", u |-> "U", v |-> "V", w |-> "W", x |-> "X",
     y |-> "Y", z |-> "Z", jan |-> "JAN", Jan |-> "JAN", feb |-> "FEB",
     Feb |-> "FEB", mar |-> "MAR", Mar |-> "MAR", january |-> "JANUARY",
     January |-> "JANUARY", march |-> "MARCH", March |-> "MARCH",
     present |-> "PRESENT", Present |-> "PRESENT", current |-> "CURRENT",
     Current |-> "CURRENT", to |-> "TO", To |-> "TO", not |-> "NOT",
     Not |-> "NOT", date |-> "DATE", Date |-> "DATE",
     presently |-> "PRESENTLY", Presently |-> "PRESENTLY"]

HasUpper == DOMAIN LowerOf
HasLower == DOMAIN UpperOf

\* str.lower() of one piece
LowerPiece(p) == IF p \in HasUpper THEN LowerOf[p] ELSE p

\* str.upper() of one piece
UpperPiece(p) == IF p \in HasLower THEN UpperOf[p] ELSE p

RECURSIVE lower(_)
lower(s) == IF s = <<>> THEN <<>> ELSE <<LowerPiece(Head(s))>> \o lower(Tail(s))

RECURSIVE upper(_)
upper(s) == IF s = <<>> THEN <<>> ELSE <<UpperPiece(Head(s))>> \o upper(Tail(s))

\* position of the first occurrence of sub in s at or after from, 0 if none
FindFrom(s, sub, from) ==
    LET hits == {k \in from..(Len(s) - Len(sub) + 1) :
                    \A j \in 1..Len(sub) : s[k + j - 1] = sub[j]}
    IN IF hits = {} THEN 0 ELSE CHOOSE k \in hits : \A h \in hits : k <= h

\* `sub in s`
In(sub, s) == FindFrom(s, sub, 1) > 0

\* s.split(sep), sep not empty
RECURSIVE split(_, _)
split(s, sep) ==
    LET k == FindFrom(s, sep, 1)
    IN IF k = 0 THEN <<s>>
       ELSE <<SubSeq(s, 1, k - 1)>> \o split(SubSeq(s, k + Len(sep), Len(s)), sep)

\* s.strip()
RECURSIVE strip(_)
strip(s) ==
    IF s = <<>> THEN s
    ELSE IF Head(s) = " " THEN strip(Tail(s))
    ELSE IF s[Len(s)] = " " THEN strip(SubSeq(s, 1, Len(s) - 1))
    ELSE s

\* sep.join(parts)
RECURSIVE join(_, _)
join(sep, parts) ==
    IF parts = <<>> THEN <<>>
    ELSE IF Len(parts) = 1 THEN parts[1]
    ELSE parts[1] \o sep \o join(sep, Tail(parts))

----------------------------------------------------------------------------
(* Levenshtein.distance: insertions, deletions and substitutions, cost 1 *)

RECURSIVE LevRow(_, _, _, _)
\* the row of the prefix ending in character ca, from the row before it
LevRow(prev, ca, b, acc) ==
    IF Len(acc) = Len(b) + 1 THEN acc
    ELSE LET j == Len(acc)
             sub == prev[j] + (IF ca = b[j] THEN 0 ELSE 1)
         IN LevRow(prev, ca, b, Append(acc, Min(Min(prev[j + 1] + 1, acc[j] + 1), sub)))

RECURSIVE LevRows(_, _, _, _)
LevRows(a, b, k, prev) ==
    IF k > Len(a) THEN prev
    ELSE LevRows(a, b, k + 1, LevRow(prev, a[k], b, <<prev[1] + 1>>))

levenshtein_distance(a, b) ==
    LevRows(a, b, 1, [j \in 1..(Len(b) + 1) |-> j - 1])[Len(b) + 1]

----------------------------------------------------------------------------
(* dates: <<year, month, day>>; the time of day plays no part in any result *)

\* month names (lower case) and their numbers
AbbrMonths ==
    [jan |-> 1, feb |-> 2, mar |-> 3, apr |-> 4, may |-> 5, jun |-> 6,
     jul |-> 7, aug |-> 8, sep |-> 9, oct |-> 10, nov |-> 11, dec |-> 12]
FullMonths ==
    [january |-> 1, february |-> 2, march |-> 3, april |-> 4, may |-> 5,
     june |-> 6, july |-> 7, august |-> 8, september |-> 9, october |-> 10,
     november |-> 11, december |-> 12]
YearPieces == << <<"2019", 2019>>, <<"2020", 2020>>, <<"2021", 2021>>,
                 <<"2026", 2026>> >>
MonthPieces == << <<"01", 1>>, <<"03", 3>>, <<"1", 1>>, <<"3", 3>> >>

IsIn(p, table) == p \in DOMAIN table
IndexIn(p, table) == table[p]
IsKey(p, pairs) == \E k \in 1..Len(pairs) : pairs[k][1] = p
ValueOf(p, pairs) == pairs[CHOOSE k \in 1..Len(pairs) : pairs[k][1] = p][2]

IsLeap(y) == (y % 4 = 0) /\ ((y % 100 # 0) \/ (y % 400 = 0))
DaysInMonth(y, m) ==
    IF m = 2 THEN (IF IsLeap(y) THEN 29 ELSE 28)
    ELSE IF m \in {4, 6, 9, 11} THEN 30 ELSE 31

\* days before the first of month m: the table of datetime, one more after
\* February of a leap year
DaysBeforeMonth(y, m) ==
    <<0, 31, 59, 90, 120, 151, 181, 212, 243, 273, 304, 334>>[m]
    + (IF m > 2 /\ IsLeap(y) THEN 1 ELSE 0)

\* date.toordinal()
ToOrdinal(dt) ==
    LET y == dt[1] - 1
    IN y * 365 + (y \div 4) - (y \div 100) + (y \div 400)
       + DaysBeforeMonth(dt[1], dt[2]) + dt[3]

DateLess(a, b) == ToOrdinal(a) < ToOrdinal(b)

\* relativedelta._set_months: years and months carry the sign of the total
SetMonths(months) ==
    LET s == IF months < 0 THEN -1 ELSE 1
        a == months * s
    IN <<s * (a \div 12), s * (a % 12)>>

\* dt + relativedelta(years, months): the day is cut to the month's length
AddMonths(dt, months) ==
    LET ym == SetMonths(months)
        m0 == dt[2] + ym[2]
        y1 == dt[1] + ym[1] + (IF m0 > 12 THEN 1 ELSE IF m0 < 1 THEN -1 ELSE 0)
        m1 == IF m0 > 12 THEN m0 - 12 ELSE IF m0 < 1 THEN m0 + 12 ELSE m0
    IN <<y1, m1, Min(DaysInMonth(y1, m1), dt[3])>>

RECURSIVE RelativeMonths(_, _, _)
\* the loop of relativedelta.__init__ that settles the whole months
RelativeMonths(dt1, dt2, months) ==
    LET dtm == AddMonths(dt2, months)
    IN IF DateLess(dt1, dt2)
       THEN (IF DateLess(dtm, dt1) THEN RelativeMonths(dt1, dt2, months + 1) ELSE months)
       ELSE (IF DateLess(dt1, dtm) THEN RelativeMonths(dt1, dt2, months - 1) ELSE months)

\* relativedelta(dt1, dt2) as <<years, months, days>>
relativedelta(dt1, dt2) ==
    LET months == RelativeMonths(dt1, dt2,
                      (dt1[1] - dt2[1]) * 12 + (dt1[2] - dt2[2]))
        ym == SetMonths(months)
    IN <<ym[1], ym[2], ToOrdinal(dt1) - ToOrdinal(AddMonths(dt2, months))>>

----------------------------------------------------------------------------
(* addPeriod.py *)

RECURSIVE add_spaces_from(_, _)
add_spaces_from(text, k) ==
    IF k > Len(text) THEN <<>>
    ELSE IF /\ text[k] = "-"
            /\ (k = 1 \/ text[k - 1] # " ")
            /\ (k = Len(text) \/ text[k + 1] # " ")
         THEN <<" ", "-", " ">> \o add_spaces_from(text, k + 1)
         ELSE <<text[k]>> \o add_spaces_from(text, k + 1)

add_spaces_around_delimiter(text) == add_spaces_from(text, 1)

nowdate == now

RECURSIVE search_dates_from(_, _)
\* the dates dateparser finds, in text order: a month name followed by a year,
\* or a year alone; what the text leaves out is taken from the current date
search_dates_from(text, k) ==
    IF k > Len(text) THEN <<>>
    ELSE LET w == LowerPiece(text[k])
             isMonth == IsIn(w, AbbrMonths) \/ IsIn(w, FullMonths)
             month == IF IsIn(w, AbbrMonths) THEN IndexIn(w, AbbrMonths)
                      ELSE IndexIn(w, FullMonths)
         IN IF /\ isMonth
               /\ k + 2 <= Len(text)
               /\ text[k + 1] = " "
               /\ IsKey(text[k + 2], YearPieces)
            THEN <<<<ValueOf(text[k + 2], YearPieces), month, now[3]>>>>
                 \o search_dates_from(text, k + 3)
            ELSE IF IsKey(text[k], YearPieces)
            THEN <<<<ValueOf(text[k], YearPieces), now[2], now[3]>>>>
                 \o search_dates_from(text, k + 1)
            ELSE search_dates_from(text, k + 1)

\* None when nothing is found
search_dates(text) ==
    LET found == search_dates_from(text, 1)
    IN IF found = <<>> THEN None ELSE List(found)

NoValidDates == Str(<<"No valid dates found in the text.">>)
NoEndDate == Str(<<"No end date provided in the text.">>)

calculate_date_difference(text) ==
    LET dates == search_dates(text)
    IN IF dates.t = "none" THEN NoValidDates
       ELSE IF Len(dates.v) > 1
       THEN List(relativedelta(dates.v[2], dates.v[1]))
       ELSE IF Len(dates.v) = 1
       THEN (IF In(<<"PRESENT">>, text)
             THEN List(relativedelta(nowdate, dates.v[1]))
             ELSE NoEndDate)
       ELSE NoValidDates

\* add_period_field on the items of one list value (lines 60-66); Raise when
\* .upper() is called on a duration that is no str
RECURSIVE add_period_from_all(_, _)
\* variant: a record without a duration gets the marker of no dates
add_period_from_all(items, done) ==
    IF items = <<>> THEN List(done)
    ELSE IF ~Truthy(Head(items).duration)
    THEN add_period_from_all(Tail(items),
                             Append(done, [Head(items) EXCEPT !.period = NoValidDates]))
    ELSE IF Head(items).duration.t # "str" THEN Raise
    ELSE add_period_from_all(
             Tail(items),
             Append(done, [Head(items) EXCEPT !.period = calculate_date_difference(
                              add_spaces_around_delimiter(upper(Head(items).duration.v)))]))

RECURSIVE add_period_from(_, _)
add_period_from(items, done) ==
    IF items = <<>> THEN List(done)
    ELSE IF ~Truthy(Head(items).duration)
    THEN add_period_from(Tail(items), Append(done, Head(items)))
    ELSE IF Head(items).duration.t # "str" THEN Raise
    ELSE add_period_from(
             Tail(items),
             Append(done, [Head(items) EXCEPT !.period = calculate_date_difference(
                              add_spaces_around_delimiter(upper(Head(items).duration.v)))]))

add_period_items(items) == add_period_from(items, <<>>)

add_period_value(value) ==
    IF value.t # "list" THEN value ELSE add_period_items(value.v)

\* the call raises (AttributeError) when a truthy duration is no str
add_period_raises(d) ==
    /\ isinstance_dict(d)
    /\ \/ add_period_value(d.work_experience).t = "raise"
       \/ add_period_value(d.projects).t = "raise"

\* the list values that hold dict items are 'work experience' and 'projects';
\* the items of 'skills' are no dicts and 'internship' is no list
add_period_field(d) ==
    IF isinstance_dict(d)
    THEN [d EXCEPT !.work_experience = add_period_value(d.work_experience),
                   !.projects = add_period_value(d.projects)]
    ELSE d

HasKey(dict, key) == \E k \in 1..Len(dict) : dict[k].k = key
KeyIndex(dict, key) == CHOOSE k \in 1..Len(dict) : dict[k].k = key
\* dict[key] = value: a present key keeps its place
DictSet(dict, key, value) ==
    IF HasKey(dict, key)
    THEN [dict EXCEPT ![KeyIndex(dict, key)].v = value]
    ELSE Append(dict, [k |-> key, v |-> value])
Keys(dict) == [k \in 1..Len(dict) |-> dict[k].k]

NA == Str(<<"N", "/", "A">>)

RECURSIVE skills_comprehension_empty(_, _)
\* variant: the flat skills are given the empty string
skills_comprehension_empty(skills, acc) ==
    IF skills = <<>> THEN acc
    ELSE skills_comprehension_empty(Tail(skills), DictSet(acc, Head(skills), Str(<<>>)))

RECURSIVE skills_comprehension(_, _)
\* {skill: 'N/A' for skill in skills}
skills_comprehension(skills, acc) ==
    IF skills = <<>> THEN acc
    ELSE skills_comprehension(Tail(skills), DictSet(acc, Head(skills), NA))

format_skills(d) ==
    IF isinstance_dict(d) /\ d.skills.t = "list"
    THEN [d EXCEPT !.skills = Dict(skills_comprehension(d.skills.v, <<>>))]
    ELSE d

\* line 76 on a value that is no dict: `'skills' in data` raises TypeError
\* unless data is a str or a list, and data['skills'] raises it when the
\* name is found
format_skills_raises(d) ==
    /\ ~isinstance_dict(d)
    /\ IF d.t \in {"str", "list"} THEN key_in("skills", d) ELSE TRUE

\* lines 112-118 on a value that is no dict: data[...] raises TypeError when
\* one of the three names is found
extract_skills_periods_raises(d) ==
    /\ ~isinstance_dict(d)
    /\ IF d.t \in {"str", "list"}
       THEN \/ key_in("work experience", d)
            \/ key_in("projects", d)
            \/ key_in("internship", d)
       ELSE TRUE

RECURSIVE set_all(_, _, _)
\* for tech in technologies: skills_periods[tech] = period
set_all(skills_periods, technologies, period) ==
    IF technologies = <<>> THEN skills_periods
    ELSE set_all(DictSet(skills_periods, Head(technologies), period),
                 Tail(technologies), period)

RECURSIVE strip_all(_)
strip_all(parts) ==
    IF parts = <<>> THEN <<>> ELSE <<strip(Head(parts))>> \o strip_all(Tail(parts))

\* [tech.strip() for tech in text.split(',')]
split_and_strip(text) == strip_all(split(text, <<",">>))

RECURSIVE add_skills_from_section_str_only(_, _)
\* variant: only a str 'technologies' contributes
add_skills_from_section_str_only(skills_periods, section) ==
    IF section.t = "dict"
    THEN (IF Truthy(section.v.technologies) /\ section.v.technologies.t = "str"
          THEN set_all(skills_periods, split_and_strip(section.v.technologies.v),
                       IF section.v.period.t = "absent" THEN Str(<<>>)
                       ELSE section.v.period)
          ELSE skills_periods)
    ELSE IF section.t = "list"
    THEN (IF section.v = <<>> THEN skills_periods
          ELSE add_skills_from_section_str_only(
                   add_skills_from_section_str_only(skills_periods, Dict(Head(section.v))),
                   List(Tail(section.v))))
    ELSE skills_periods

RECURSIVE add_skills_from_section(_, _)
\* the helper of extract_skills_periods, on a dict section or a list of them
add_skills_from_section(skills_periods, section) ==
    IF section.t = "dict"
    THEN LET rec == section.v
         IN IF Truthy(rec.technologies)
            THEN LET technologies ==
                         IF rec.technologies.t = "str"
                         THEN split_and_strip(rec.technologies.v)
                         ELSE IF rec.technologies.t = "list"
                         THEN rec.technologies.v
                         ELSE <<>>
                     period == IF rec.period.t = "absent" THEN Str(<<>>)
                               ELSE rec.period
                 IN set_all(skills_periods, technologies, period)
            ELSE skills_periods
    ELSE IF section.t = "list"
    THEN (IF section.v = <<>> THEN skills_periods
          ELSE add_skills_from_section(
                   add_skills_from_section(skills_periods, Dict(Head(section.v))),
                   List(Tail(section.v))))
    ELSE skills_periods

RECURSIVE set_missing_overwrite(_, _, _)
\* variant: an internship skill takes the place of one recorded before
set_missing_overwrite(skills_periods, technologies, period) ==
    IF technologies = <<>> THEN skills_periods
    ELSE set_missing_overwrite(DictSet(skills_periods, Head(technologies), period),
                               Tail(technologies), period)

RECURSIVE set_missing(_, _, _)
\* for tech in technologies: if tech not in skills_periods: ...
set_missing(skills_periods, technologies, period) ==
    IF technologies = <<>> THEN skills_periods
    ELSE set_missing(IF HasKey(skills_periods, Head(technologies))
                     THEN skills_periods
                     ELSE DictSet(skills_periods, Head(technologies), period),
                     Tail(technologies), period)

extract_skills_periods(d) ==
    IF ~isinstance_dict(d) THEN <<>> ELSE
    LET s1 == IF d.work_experience.t # "absent"
              THEN add_skills_from_section(<<>>, d.work_experience) ELSE <<>>
        s2 == IF d.projects.t # "absent"
              THEN add_skills_from_section(s1, d.projects) ELSE s1
    IN IF d.internship.t = "str" /\ Truthy(d.internship)
       THEN set_missing(s2, split_and_strip(d.internship.v), NA)
       ELSE s2

\* scores are fractions <<numerator, denominator>>; <<1, 0>> is float('inf')
Inf == <<1, 0>>
ScoreLess(a, b) == a[1] * b[2] < b[1] * a[2]
ScoreLeq(a, b) == a[1] * b[2] <= b[1] * a[2]

normalize_score(score, max_len) ==
    IF max_len > 0 THEN <<score, max_len>> ELSE <<1, 1>>

\* normalized_score of skill against an existing name (lines 150-152, 181-183)
NormalizedScore(skill, existing) ==
    normalize_score(levenshtein_distance(lower(skill), lower(existing)),
                    Max(Len(skill), Len(existing)))

\* variant: an equal score replaces the match found so far
IsBetterOrEqual(score, best) == ScoreLeq(score, best)

\* `if normalized_score < best_score` (lines 154, 186)
IsBetter(score, best) == ScoreLess(score, best)

Better(k, score, best) ==
    IF IsBetter(score, best.score) THEN [match |-> k, score |-> score] ELSE best

RECURSIVE BestFrom(_, _, _, _)
\* the scan `for existing in names: if normalized_score < best_score: ...`
\* from position k on, as [match, score]; match 0 is None
BestFrom(skill, names, k, best) ==
    IF k > Len(names) THEN best
    ELSE BestFrom(skill, names, k + 1,
                  Better(k, NormalizedScore(skill, names[k]), best))

BestMatch(skill, names) == BestFrom(skill, names, 1, [match |-> 0, score |-> Inf])

\* threshold=0.8 (main.py 85, and the default of sum_skills_periods)
SumThreshold == <<8, 10>>
\* threshold=0.5, the default of update_existing_skills
UpdateThreshold == <<5, 10>>

\* `best_score <= (1 - threshold)` in double arithmetic.  1 - 0.8 evaluates to
\* 0.19999999999999996, below the double nearest to 1/5, so a score of exactly
\* 1/5 is not <= it; 1 - 0.5 is exact.
WithinOneMinus(score, thr) ==
    LET bound == <<thr[2] - thr[1], thr[2]>>
    IN IF thr = <<8, 10>> THEN ScoreLess(score, bound)
       ELSE ScoreLeq(score, bound)

\* variant: the new periods replace the sum so far
ZipReplace(current, periods) ==
    IF periods.t = "list" THEN List(periods.v)
    ELSE IF periods.t = "str"
    THEN (IF current = <<>> \/ periods.v = <<>> THEN List(<<>>) ELSE Raise)
    ELSE Raise

\* [x + y for x, y in zip(current, periods)]: Raise when an int is added to a
\* character of a str, or when periods cannot be iterated
ZipAdd(current, periods) ==
    IF periods.t = "list"
    THEN List([k \in 1..Min(Len(current), Len(periods.v)) |->
                  current[k] + periods.v[k]])
    ELSE IF periods.t = "str"
    THEN (IF current = <<>> \/ periods.v = <<>> THEN List(<<>>) ELSE Raise)
    ELSE Raise

\* variant: a matched cluster takes the spelling of the pair merged into it
sum_skills_step_rename(summed, skill, periods) ==
    LET best == BestMatch(skill, Keys(summed))
        good == /\ best.match # 0
                /\ summed[best.match].k # <<>>
                /\ WithinOneMinus(best.score, SumThreshold)
        current == IF good THEN summed[best.match].v ELSE <<0, 0, 0>>
        total == ZipAdd(current, periods)
    IN [raised |-> total.t = "raise",
        summed |-> IF total.t = "raise" THEN summed
                   ELSE IF good
                   THEN [summed EXCEPT ![best.match] = [k |-> skill, v |-> total.v]]
                   ELSE DictSet(summed, skill, total.v),
        match |-> best.match,
        score |-> best.score]

\* variant: a pair merged into a cluster also starts a cluster of its own
sum_skills_step_twice(summed, skill, periods) ==
    LET best == BestMatch(skill, Keys(summed))
        good == /\ best.match # 0
                /\ summed[best.match].k # <<>>
                /\ WithinOneMinus(best.score, SumThreshold)
        key == IF good THEN summed[best.match].k ELSE skill
        current == IF HasKey(summed, key) THEN summed[KeyIndex(summed, key)].v
                   ELSE <<0, 0, 0>>
        total == ZipAdd(current, periods)
    IN [raised |-> total.t = "raise",
        summed |-> IF total.t = "raise" THEN summed
                   ELSE IF good /\ ~HasKey(summed, skill)
                   THEN DictSet(DictSet(summed, key, total.v), skill, periods.v)
                   ELSE DictSet(summed, key, total.v),
        match |-> best.match,
        score |-> best.score]

\* one iteration of the loop of sum_skills_periods (lines 144-163) on the pair
\* (skill, periods): [raised, summed, match, score]
sum_skills_step(summed, skill, periods) ==
    LET best == BestMatch(skill, Keys(summed))
        good == /\ best.match # 0
                /\ summed[best.match].k # <<>>
                /\ WithinOneMinus(best.score, SumThreshold)
        key == IF good THEN summed[best.match].k ELSE skill
        current == IF HasKey(summed, key) THEN summed[KeyIndex(summed, key)].v
                   ELSE <<0, 0, 0>>
        total == ZipAdd(current, periods)
    IN [raised |-> total.t = "raise",
        summed |-> IF total.t = "raise" THEN summed
                   ELSE DictSet(summed, key, total.v),
        match |-> best.match,
        score |-> best.score]

\* variant: a score equal to the threshold is no match
BelowThreshold(score, thr) == ScoreLess(score, thr)

\* `best_score <= threshold` (line 191)
WithinThreshold(score, thr) == ScoreLeq(score, thr)

\* ', '.join(map(str, period))
JoinPeriod(period) ==
    Str(join(<<", ">>, [k \in 1..Len(period) |-> <<ToString(period[k])>>]))

\* variant: a matched key is replaced by the record's name
update_skills_step_rekey(skills, skill, period, thr) ==
    LET best == BestMatch(skill, Keys(skills))
        good == /\ best.match # 0
                /\ skills[best.match].k # <<>>
                /\ WithinThreshold(best.score, thr)
    IN [skills |-> IF good
                   THEN [skills EXCEPT ![best.match] =
                            [k |-> skill, v |-> JoinPeriod(period)]]
                   ELSE DictSet(skills, skill, JoinPeriod(period)),
        match |-> best.match,
        score |-> best.score]

\* variant: the value is always stored under the record's own name
update_skills_step_own_name(skills, skill, period, thr) ==
    LET best == BestMatch(skill, Keys(skills))
    IN [skills |-> DictSet(skills, skill, JoinPeriod(period)),
        match |-> best.match,
        score |-> best.score]

\* one iteration of the loop of update_existing_skills (lines 175-195) on the
\* record (skill, period): [skills, match, score]
update_skills_step(skills, skill, period, thr) ==
    LET best == BestMatch(skill, Keys(skills))
        good == /\ best.match # 0
                /\ skills[best.match].k # <<>>
                /\ WithinThreshold(best.score, thr)
        key == IF good THEN skills[best.match].k ELSE skill
    IN [skills |-> DictSet(skills, key, JoinPeriod(period)),
        match |-> best.match,
        score |-> best.score]

----------------------------------------------------------------------------
(* The resume mappings the language-model stage hands over (results[0] of      *)
(* process, main.py 77): skill names, durations and sections to draw from.    *)

Python == <<"P", "y", "t", "h", "o", "n">>
python == <<"p", "y", "t", "h", "o", "n">>
SQL == <<"S", "Q", "L">>
Java == <<"J", "a", "v", "a">>
Jira == <<"J", "i", "r", "a">>
MySQL == <<"M", "y", "S", "Q", "L">>
MSSQL == <<"M", "S", "S", "Q", "L">>
Python2 == <<"P", "y", "t", "h", "o", "n", "2">>
Python3 == <<"P", "y", "t", "h", "o", "n", "3">>
Cython3 == <<"C", "y", "t", "h", "o", "n", "3">>
Cpp == <<"C", "+", "+">>

Jan2020ToJan2021 == <<"Jan", " ", "2020", " ", "-", " ", "Jan", " ", "2021">>
Feb2021ToPresent == <<"Feb", " ", "2021", " ", "-", " ", "Present">>
Mar2021ToJan2020 == <<"Mar", " ", "2021", " ", "-", " ", "Jan", " ", "2020">>
Y2019Y2021 == <<"2019", "-", "2021">>
NotADate == <<"not", " ", "a", " ", "date">>
Jan2020 == <<"Jan", " ", "2020">>

Section(dur, tech) == [duration |-> dur, technologies |-> tech, period |-> Absent]

\* the records a 'work experience' list is drawn from
WorkRecords ==
    << Section(Str(Jan2020ToJan2021), Str(Python \o <<",", " ">> \o SQL)),
       Section(Str(Feb2021ToPresent), Str(python \o <<",", " ">> \o Java)),
       Section(Str(Mar2021ToJan2020), List(<<MySQL>>)),
       Section(Str(Y2019Y2021), List(<<MSSQL>>)),
       Section(Str(Jan2020ToJan2021), Str(Python2)),
       Section(Str(Y2019Y2021), Str(Cython3)),
       Section(Str(Feb2021ToPresent), Str(Python3)),
       Section(Str(NotADate), Str(Java)),
       Section(Absent, Str(Cpp \o <<",", " ", ",">> \o SQL)),
       Section(Str(Jan2020), Number) >>

\* the projects without 'technologies' or with none, and one after them
BareProjects ==
    List(<<Section(Str(Jan2020ToJan2021), Absent),
           Section(Str(Jan2020ToJan2021), List(<<>>)),
           Section(Str(Feb2021ToPresent), Str(Jira))>>)

\* the values of 'projects': the key missing, or a list of records
ProjectValues ==
    << Absent,
       List(<<Section(Str(Feb2021ToPresent), Str(Python3))>>),
       List(<<Section(Str(Jan2020ToJan2021), List(<<Java, Cpp>>))>>),
       BareProjects >>

\* the values of 'skills': the flat list, or the key missing
SkillsValues ==
    << List(<<>>), List(<<python, Python>>), List(<<SQL, Jira>>), Absent >>

\* the values of 'internship'
InternshipValues ==
    << Absent, Str(Java \o <<",", " ">> \o SQL \o <<",">> \o SQL) >>

\* the longest 'work experience' list
MaxWork == 2

WorkLists == UNION {[1..n -> 1..Len(WorkRecords)] : n \in 0..MaxWork}

----------------------------------------------------------------------------
(* The handler extract_cv_info, main.py 78-101 *)

Init ==
    /\ pc = "add_period_field"
    /\ now = <<2026, 11, 4>>
    /\ \E w \in WorkLists, p \in 1..Len(ProjectValues),
          s \in 1..Len(SkillsValues), n \in 1..Len(InternshipValues) :
          data = [work_experience |-> List([k \in DOMAIN w |-> WorkRecords[w[k]]]),
                  projects |-> ProjectValues[p],
                  internship |-> InternshipValues[n],
                  skills |-> SkillsValues[s]]
    /\ results0 = data
    /\ skills_periods_list = <<>>
    /\ summed_skills = <<>>
    /\ i = 0
    /\ best_match = 0
    /\ best_score = Inf
    /\ duration = Str(<<>>)
    /\ parsed = Tuple(None, None)
    /\ period_months = Absent
    /\ clock = 1
    /\ threshold = UpdateThreshold
    /\ enhanced_data = Absent
    /\ req = <<>>
    /\ fs = <<>>
    /\ llama = <<>>

\* line 79: updated_data = add_period_field(results[0])
AddPeriodField ==
    /\ pc = "add_period_field"
    /\ IF add_period_raises(data)
       THEN pc' = "error" /\ UNCHANGED data
       ELSE pc' = "format_skills" /\ data' = add_period_field(data)
    /\ UNCHANGED <<now, results0, skills_periods_list, summed_skills, i, best_match,
                   best_score, duration, parsed,
                   period_months, clock, threshold,
                   enhanced_data, req, fs, llama>>

\* line 81: updated_data = format_skills(updated_data)
FormatSkills ==
    /\ pc = "format_skills"
    /\ IF format_skills_raises(data)
       THEN pc' = "error" /\ UNCHANGED data
       ELSE pc' = "extract_skills_periods" /\ data' = format_skills(data)
    /\ UNCHANGED <<now, results0, skills_periods_list, summed_skills, i, best_match,
                   best_score, duration, parsed,
                   period_months, clock, threshold,
                   enhanced_data, req, fs, llama>>

\* line 83: skills_periods_list = extract_skills_periods(updated_data)
ExtractSkillsPeriods ==
    /\ pc = "extract_skills_periods"
    /\ IF extract_skills_periods_raises(data)
       THEN pc' = "error" /\ UNCHANGED <<skills_periods_list, i>>
       ELSE /\ pc' = "sum_skills_periods"
            /\ skills_periods_list' = extract_skills_periods(data)
            /\ i' = 1
    /\ UNCHANGED <<now, results0, data, summed_skills, best_match, best_score, duration, parsed,
                   period_months, clock, threshold,
                   enhanced_data, req, fs, llama>>

\* line 85, one iteration of the loop of sum_skills_periods; an exception
\* leaves the handler through its except clause (main.py 99-101)
SumSkillsPeriodsStep ==
    /\ pc = "sum_skills_periods"
    /\ i <= Len(skills_periods_list)
    /\ \E r \in {sum_skills_step(summed_skills, skills_periods_list[i].k,
                                skills_periods_list[i].v)} :
          /\ best_match' = r.match
          /\ best_score' = r.score
          /\ IF r.raised
             THEN pc' = "error" /\ UNCHANGED <<summed_skills, i>>
             ELSE pc' = pc /\ summed_skills' = r.summed /\ i' = i + 1
    /\ UNCHANGED <<now, results0, data, skills_periods_list, duration, parsed,
                   period_months, clock, threshold,
                   enhanced_data, req, fs, llama>>

\* lines 165-169: the loop is over, the summed list is returned
SumSkillsPeriodsReturn ==
    /\ pc = "sum_skills_periods"
    /\ i > Len(skills_periods_list)
    /\ pc' = "update_existing_skills"
    /\ i' = 1
    /\ best_match' = 0
    /\ best_score' = Inf
    /\ UNCHANGED <<now, results0, data, skills_periods_list, summed_skills, duration, parsed,
                   period_months, clock, threshold,
                   enhanced_data, req, fs, llama>>

\* line 87, one iteration of the loop of update_existing_skills;
\* skills_dict['skills'] raises KeyError when the key is missing and
\* TypeError when skills_dict is no dict
UpdateExistingSkillsStep ==
    /\ pc = "update_existing_skills"
    /\ i <= Len(summed_skills)
    /\ IF (IF isinstance_dict(data) THEN data.skills.t # "dict" ELSE TRUE)
       THEN pc' = "error" /\ UNCHANGED <<data, i, best_match, best_score>>
       ELSE \E r \in {update_skills_step(data.skills.v, summed_skills[i].k,
                                        summed_skills[i].v, threshold)} :
               /\ data' = [data EXCEPT !.skills = Dict(r.skills)]
               /\ best_match' = r.match
               /\ best_score' = r.score
               /\ i' = i + 1
               /\ pc' = pc
    /\ UNCHANGED <<now, results0, skills_periods_list, summed_skills, duration, parsed,
                   period_months, clock, threshold,
                   enhanced_data, req, fs, llama>>

\* line 198 and main.py 89-97: skills_dict is returned; a dict is sent as
\* {"data": results}, a str as {"message": results}, and anything else ends
\* in HTTP 500 (a list by results["error"] or by "Unexpected result format.")
UpdateExistingSkillsReturn ==
    /\ pc = "update_existing_skills"
    /\ i > Len(summed_skills)
    /\ pc' = IF isinstance_dict(data) THEN "done"
             ELSE IF data.t = "str" THEN "message"
             ELSE "error"
    /\ UNCHANGED <<now, results0, data, skills_periods_list, summed_skills, i, best_match,
                   best_score, duration, parsed,
                   period_months, clock, threshold,
                   enhanced_data, req, fs, llama>>

Next ==
    \/ AddPeriodField
    \/ FormatSkills
    \/ ExtractSkillsPeriods
    \/ SumSkillsPeriodsStep
    \/ SumSkillsPeriodsReturn
    \/ UpdateExistingSkillsStep
    \/ UpdateExistingSkillsReturn

Spec == Init /\ [][Next]_vars

\* top-level values that are no dict: texts, lists (the whole results list
\* among them), None and a number
TopValues ==
    << Str(<<"resume">>),
       Str(<<"my ", "skills">>),
       Str(<<"projects", ": none">>),
       Str(<<>>),
       List(<<>>),
       List(<<Str(<<"error">>)>>),
       List(<<Str(<<"skills">>)>>),
       List(<<Str(<<"internship">>), Str(<<"resume">>)>>),
       List(<<[work_experience |-> List(<<WorkRecords[1]>>),
               projects |-> Absent,
               internship |-> Absent,
               skills |-> List(<<SQL, Jira>>)]>>),
       None,
       Number >>

\* the pipeline handed a value that is no dict, or a mapping with one
\* 'work experience' record
InitTop ==
    /\ pc = "add_period_field"
    /\ now = <<2026, 11, 4>>
    /\ \/ \E k \in 1..Len(TopValues) : data = TopValues[k]
       \/ \E w \in 1..Len(WorkRecords), p \in 1..Len(ProjectValues),
             s \in 1..Len(SkillsValues), n \in 1..Len(InternshipValues) :
             data = [work_experience |-> List(<<WorkRecords[w]>>),
                     projects |-> ProjectValues[p],
                     internship |-> InternshipValues[n],
                     skills |-> SkillsValues[s]]
    /\ results0 = data
    /\ skills_periods_list = <<>>
    /\ summed_skills = <<>>
    /\ i = 0
    /\ best_match = 0
    /\ best_score = Inf
    /\ duration = Str(<<>>)
    /\ parsed = Tuple(None, None)
    /\ period_months = Absent
    /\ clock = 1
    /\ threshold = UpdateThreshold
    /\ enhanced_data = Absent
    /\ req = <<>>
    /\ fs = <<>>
    /\ llama = <<>>

SpecTop == InitTop /\ [][Next]_vars

----------------------------------------------------------------------------
(* update_existing_skills(skills_list, skills_dict, threshold) called with a  *)
(* threshold of the caller's choice                                           *)

\* the values of threshold: 0.2, 0.5 (the default), 0.8 and 1.0
Thresholds == {<<2, 10>>, UpdateThreshold, <<8, 10>>, <<10, 10>>}

\* the values of skills_dict['skills']
SkillMaps ==
    << <<>>,
       <<[k |-> Jira, v |-> NA]>>,
       <<[k |-> SQL, v |-> NA], [k |-> Jira, v |-> NA]>>,
       <<[k |-> python, v |-> NA], [k |-> Python3, v |-> NA]>>,
       <<[k |-> Cython3, v |-> NA], [k |-> MySQL, v |-> NA]>> >>

\* the aggregated records skills_list is drawn from
SummedRecords ==
    << [k |-> Java, v |-> <<1, 0, 0>>],
       [k |-> Python, v |-> <<0, 2, 0>>],
       [k |-> Python2, v |-> <<0, 0, 3>>],
       [k |-> MySQL, v |-> <<-1, -2, 0>>],
       [k |-> MSSQL, v |-> <<2, 0, 0>>] >>

\* the longest skills_list
MaxRecords == 2

InitUpdate ==
    /\ pc = "update_existing_skills"
    /\ now = <<2026, 11, 4>>
    /\ threshold \in Thresholds
    /\ \E m \in 1..Len(SkillMaps) :
          data = [work_experience |-> Absent, projects |-> Absent,
                  internship |-> Absent, skills |-> Dict(SkillMaps[m])]
    /\ results0 = data
    /\ skills_periods_list = <<>>
    /\ \E n \in 0..MaxRecords :
          \E r \in [1..n -> 1..Len(SummedRecords)] :
              /\ \A a, b \in 1..n : a # b => r[a] # r[b]
              /\ summed_skills = [k \in 1..n |-> SummedRecords[r[k]]]
    /\ i = 1
    /\ best_match = 0
    /\ best_score = Inf
    /\ duration = Str(<<>>)
    /\ parsed = Tuple(None, None)
    /\ period_months = Absent
    /\ clock = 1
    /\ enhanced_data = Absent
    /\ req = <<>>
    /\ fs = <<>>
    /\ llama = <<>>

NextUpdate ==
    \/ UpdateExistingSkillsStep
    \/ UpdateExistingSkillsReturn

SpecUpdate == InitUpdate /\ [][NextUpdate]_vars

----------------------------------------------------------------------------
(* services/skills_service.py: SkillsService._parse_duration, _parse_date *)

\* pieces that hold another word of the vocabulary as a substring
SubstringPieces == << <<"presently", "present">> >>

\* `word in s` for a single word
ContainsWord(s, word) ==
    \E k \in 1..Len(s) :
        \/ s[k] = word
        \/ \E n \in 1..Len(SubstringPieces) : SubstringPieces[n] = <<s[k], word>>

date_formats == <<"%B %Y", "%b %Y", "%Y", "%m/%Y", "%Y-%m">>

\* datetime.strptime(s, fmt) for a lower-case s: Raise is ValueError; fields
\* the format does not give are 1
strptime(s, fmt) ==
    CASE fmt = "%B %Y" ->
             IF Len(s) = 3 /\ IsIn(s[1], FullMonths) /\ s[2] = " " /\ IsKey(s[3], YearPieces)
             THEN Datetime(<<ValueOf(s[3], YearPieces), IndexIn(s[1], FullMonths), 1>>)
             ELSE Raise
      [] fmt = "%b %Y" ->
             IF Len(s) = 3 /\ IsIn(s[1], AbbrMonths) /\ s[2] = " " /\ IsKey(s[3], YearPieces)
             THEN Datetime(<<ValueOf(s[3], YearPieces), IndexIn(s[1], AbbrMonths), 1>>)
             ELSE Raise
      [] fmt = "%Y" ->
             IF Len(s) = 1 /\ IsKey(s[1], YearPieces)
             THEN Datetime(<<ValueOf(s[1], YearPieces), 1, 1>>)
             ELSE Raise
      [] fmt = "%m/%Y" ->
             IF Len(s) = 3 /\ IsKey(s[1], MonthPieces) /\ s[2] = "/" /\ IsKey(s[3], YearPieces)
             THEN Datetime(<<ValueOf(s[3], YearPieces), ValueOf(s[1], MonthPieces), 1>>)
             ELSE Raise
      [] fmt = "%Y-%m" ->
             IF Len(s) = 3 /\ IsKey(s[1], YearPieces) /\ s[2] = "-" /\ IsKey(s[3], MonthPieces)
             THEN Datetime(<<ValueOf(s[1], YearPieces), ValueOf(s[3], MonthPieces), 1>>)
             ELSE Raise

RECURSIVE TryFormats(_, _)
\* the loop over date_formats (lines 115-121) from format k on
TryFormats(s, k) ==
    IF k > Len(date_formats) THEN None
    ELSE IF strptime(s, date_formats[k]).t # "raise" THEN strptime(s, date_formats[k])
    ELSE TryFormats(s, k + 1)

\* variant: 'present' and 'current' are looked for in the text as written
_parse_date_as_written(date_str) ==
    IF date_str.t # "str" THEN None
    ELSE IF ContainsWord(strip(date_str.v), "present")
            \/ ContainsWord(strip(date_str.v), "current")
    THEN datetime_now
    ELSE TryFormats(strip(lower(date_str.v)), 1)

\* variant: a text that matches no format is taken as the current time
_parse_date_default_now(date_str) ==
    IF date_str.t # "str" THEN None
    ELSE IF ContainsWord(strip(lower(date_str.v)), "present")
            \/ ContainsWord(strip(lower(date_str.v)), "current")
    THEN datetime_now
    ELSE IF TryFormats(strip(lower(date_str.v)), 1).t = "none" THEN datetime_now
    ELSE TryFormats(strip(lower(date_str.v)), 1)

\* lines 99-125; .lower() of a value that is no str raises, which the except
\* clause turns into None
_parse_date(date_str) ==
    IF date_str.t # "str" THEN None
    ELSE IF ContainsWord(strip(lower(date_str.v)), "present")
            \/ ContainsWord(strip(lower(date_str.v)), "current")
    THEN datetime_now
    ELSE TryFormats(strip(lower(date_str.v)), 1)

\* end_date > start_date
Later(end, start) ==
    \/ ToOrdinal(start.v) < ToOrdinal(end.v)
    \/ ToOrdinal(start.v) = ToOrdinal(end.v) /\ start.tod < end.tod

\* (end_date - start_date).days: a timedelta keeps its seconds in 0..86399,
\* so an earlier time of day takes one from the days
DeltaDays(end, start) ==
    ToOrdinal(end.v) - ToOrdinal(start.v) - (IF end.tod < start.tod THEN 1 ELSE 0)

\* variant: the quotient is rounded to the nearest whole number
MonthsOfRounded(days) == (days * 50 + 761) \div 1522

\* int(days / 30.44) for days >= 0; 30.44 = 761/25, and the double quotient
\* truncates to the same int as the exact one for every days below 200000
MonthsOf(days) == (days * 25) \div 761

\* lines 127-142.  Two calls of datetime.now() for one duration may differ by
\* microseconds; the result is 0 either way (days is 0), as here
_calculate_period_months(start_date, end_date) ==
    IF start_date.t = "none" \/ end_date.t = "none" THEN None
    ELSE IF Later(end_date, start_date)
    THEN IntOf(MonthsOf(DeltaDays(end_date, start_date)))
    ELSE IntOf(0)

Dash == <<" ", "-", " ">>
To == <<" ", "to", " ">>

\* variant: " to " is looked for before " - "
parse_duration_try_to_first(d) ==
    IF d.t # "str" THEN Raise
    ELSE IF In(To, d.v)
    THEN Tuple(_parse_date(Str(strip(split(d.v, To)[1]))),
               _parse_date(Str(strip(split(d.v, To)[2]))))
    ELSE IF In(Dash, d.v)
    THEN Tuple(_parse_date(Str(strip(split(d.v, Dash)[1]))),
               _parse_date(Str(strip(split(d.v, Dash)[2]))))
    ELSE Tuple(_parse_date(d),
               IF ContainsWord(lower(d.v), "present") THEN datetime_now ELSE None)

\* variant: a single date never has an end
parse_duration_try_no_end(d) ==
    IF d.t # "str" THEN Raise
    ELSE IF In(Dash, d.v)
    THEN Tuple(_parse_date(Str(strip(split(d.v, Dash)[1]))),
               _parse_date(Str(strip(split(d.v, Dash)[2]))))
    ELSE IF In(To, d.v)
    THEN Tuple(_parse_date(Str(strip(split(d.v, To)[1]))),
               _parse_date(Str(strip(split(d.v, To)[2]))))
    ELSE Tuple(_parse_date(d), None)

\* the try block of _parse_duration (lines 69-93); `" - " in duration` raises
\* TypeError when duration is no str
parse_duration_try(d) ==
    IF d.t # "str" THEN Raise
    ELSE IF In(Dash, d.v)
    THEN Tuple(_parse_date(Str(strip(split(d.v, Dash)[1]))),
               _parse_date(Str(strip(split(d.v, Dash)[2]))))
    ELSE IF In(To, d.v)
    THEN Tuple(_parse_date(Str(strip(split(d.v, To)[1]))),
               _parse_date(Str(strip(split(d.v, To)[2]))))
    ELSE Tuple(_parse_date(d),
               IF ContainsWord(lower(d.v), "present") THEN datetime_now ELSE None)

\* except Exception: return None, None (lines 95-97)
Caught(result) == IF result.t = "raise" THEN Tuple(None, None) ELSE result

_parse_duration(d) == Caught(parse_duration_try(d))

\* the texts on either side of a separator
Sides ==
    << <<"Jan", " ", "2020">>, <<"January", " ", "2020">>, <<"2021">>,
       <<"03", "/", "2021">>, <<"2021", "-", "03">>, <<"Present">>, <<"CURRENT">>,
       <<"not", " ", "a", " ", "date">>, <<"presently">>, <<>> >>
Separators == <<Dash, To>>

\* the most separators in a duration
MaxSeparators == 2

RECURSIVE DurationFrom(_, _)
\* the duration made of the sides and separators whose numbers are given
DurationFrom(sides, seps) ==
    IF seps = <<>> THEN Sides[sides[1]]
    ELSE Sides[sides[1]] \o Separators[seps[1]] \o DurationFrom(Tail(sides), Tail(seps))

\* the durations handed to _parse_duration (line 57) that hold n separators:
\* exp.get("duration", "") is a str or any other JSON value
DurationInputs(n) ==
    {Number} \cup
    {Str(DurationFrom(sides, seps)) :
        sides \in [1..(n + 1) -> 1..Len(Sides)],
        seps \in [1..n -> 1..Len(Separators)]}

InitParse ==
    /\ pc = "_parse_duration"
    /\ \E moment \in {<<<<2022, 1, 31>>, 1>>, <<<<2021, 1, 1>>, 0>>, <<<<2021, 1, 1>>, 1>>} :
          now = moment[1] /\ clock = moment[2]
    /\ \E n \in 0..MaxSeparators : duration \in {d \in DurationInputs(n) : Truthy(d)}
    /\ parsed = Tuple(None, None)
    /\ period_months = Absent
    /\ results0 = <<>>
    /\ data = <<>>
    /\ skills_periods_list = <<>>
    /\ summed_skills = <<>>
    /\ i = 0
    /\ best_match = 0
    /\ best_score = Inf
    /\ threshold = UpdateThreshold
    /\ enhanced_data = Absent
    /\ req = <<>>
    /\ fs = <<>>
    /\ llama = <<>>

\* line 57: start_date, end_date = self._parse_duration(duration)
ParseDuration ==
    /\ pc = "_parse_duration"
    /\ parsed' = _parse_duration(duration)
    /\ pc' = "parsed"
    /\ UNCHANGED <<now, results0, data, skills_periods_list, summed_skills, i,
                   best_match, best_score, duration, period_months, clock, threshold,
                   enhanced_data, req, fs, llama>>

\* line 60: enhanced_exp["period_months"] = self._calculate_period_months(...)
CalculatePeriodMonths ==
    /\ pc = "parsed"
    /\ period_months' = _calculate_period_months(parsed.start, parsed.end)
    /\ pc' = "period_months"
    /\ UNCHANGED <<now, results0, data, skills_periods_list, summed_skills, i,
                   best_match, best_score, duration, parsed, clock, threshold,
                   enhanced_data, req, fs, llama>>

NextParse ==
    \/ ParseDuration
    \/ CalculatePeriodMonths

SpecParse == InitParse /\ [][NextParse]_vars

----------------------------------------------------------------------------
(* services/skills_service.py: SkillsService.enhance_skills as awaited by     *)
(* ResumeService.process_resume (services/resume_service.py 49-63).  Here a   *)
(* dict is the record of its keys and every other value is a tagged value;    *)
(* texts are sequences of characters.                                         *)

common_skills ==
    << Python, Java,
       <<"J", "a", "v", "a", "S", "c", "r", "i", "p", "t">>,
       <<"R", "e", "a", "c", "t">>,
       <<"N", "o", "d", "e", ".", "j", "s">>,
       SQL,
       <<"M", "o", "n", "g", "o", "D", "B">>,
       <<"A", "W", "S">>,
       <<"D", "o", "c", "k", "e", "r">>,
       <<"K", "u", "b", "e", "r", "n", "e", "t", "e", "s">>,
       <<"G", "i", "t">>,
       <<"A", "g", "i", "l", "e">>,
       <<"S", "c", "r", "u", "m">>,
       <<"M", "a", "c", "h", "i", "n", "e", " ", "L", "e", "a", "r", "n", "i", "n", "g">>,
       <<"D", "a", "t", "a", " ", "A", "n", "a", "l", "y", "s", "i", "s">>,
       <<"P", "r", "o", "j", "e", "c", "t", " ", "M", "a", "n", "a", "g", "e", "m", "e", "n", "t">>,
       <<"L", "e", "a", "d", "e", "r", "s", "h", "i", "p">>,
       <<"C", "o", "m", "m", "u", "n", "i", "c", "a", "t", "i", "o", "n">> >>

\* lines 105-121: the common skills whose lower-cased name is a substring of
\* the lower-cased text
_extract_skills_from_text(text) ==
    LET text_lower == lower(text)
        Mentioned(skill) == FindFrom(text_lower, lower(skill), 1) # 0
    IN SelectSeq(common_skills, Mentioned)

\* x.get(key, default) for the value x[key] of a record
GetOr(value, default) == IF value.t = "absent" THEN default ELSE value

\* lines 52-62: one entry of the experience list, copied and given its dates
enhanced_exp(exp) ==
    LET d == GetOr(exp.duration, Str(<<>>))
        dates == _parse_duration(d)
    IN IF Truthy(d)
       THEN [exp EXCEPT !.start_date = dates.start,
                        !.end_date = dates.end,
                        !.period_months = _calculate_period_months(dates.start, dates.end)]
       ELSE exp

\* lines 48-64: Raise when the value cannot be iterated or an entry has no
\* copy() / get()
_add_period_fields(experience_list) ==
    IF experience_list.t \notin {"list", "str", "dict"} THEN Raise
    ELSE IF experience_list.t # "list"
    THEN (IF experience_list.v = <<>> THEN List(<<>>) ELSE Raise)
    ELSE IF \E k \in 1..Len(experience_list.v) : ~isinstance_dict(experience_list.v[k])
    THEN Raise
    ELSE List([k \in 1..Len(experience_list.v) |-> enhanced_exp(experience_list.v[k])])

\* `isinstance(skill_group, dict) and "skills" in skill_group`
IsSkillGroup(skill_group) ==
    isinstance_dict(skill_group) /\ skill_group.skills.t # "absent"

\* lines 72-76
formatted_group(skill_group) ==
    [skill_group EXCEPT !.category = GetOr(skill_group.category,
                                           Str(<<"O", "t", "h", "e", "r">>)),
                        !.count = IntOf(Len(skill_group.skills.v))]

\* lines 66-80: Raise when skills_data cannot be iterated or a group's
\* 'skills' has no len()
_format_skills(skills_data) ==
    IF skills_data.t \notin {"list", "str"} THEN Raise
    ELSE IF skills_data.t = "str" THEN List(<<>>)
    ELSE LET groups == SelectSeq(skills_data.v, IsSkillGroup)
         IN IF \E k \in 1..Len(groups) : groups[k].skills.t \notin {"list", "str", "dict"}
            THEN Raise
            ELSE List([k \in 1..Len(groups) |-> formatted_group(groups[k])])

\* lines 91-102: the entries one experience contributes
skill_periods_of(exp) ==
    LET mentioned == _extract_skills_from_text(exp.description.v)
    IN [k \in 1..Len(mentioned) |->
           [skill |-> mentioned[k],
            start_date |-> GetOr(exp.start_date, None),
            end_date |-> GetOr(exp.end_date, None),
            period_months |-> GetOr(exp.period_months, None),
            context |-> GetOr(exp.title, Str(<<>>)),
            company |-> GetOr(exp.company, Str(<<>>))]]

RECURSIVE skills_periods_from(_, _)
skills_periods_from(experience, acc) ==
    IF experience = <<>> THEN acc
    ELSE skills_periods_from(Tail(experience), acc \o skill_periods_of(Head(experience)))

\* lines 82-103: Raise when a description has no lower(), or the value of
\* 'experience' cannot be iterated
_extract_skills_periods(resume_data) ==
    IF resume_data.experience.t = "absent" THEN List(<<>>)
    ELSE IF resume_data.experience.t # "list" THEN Raise
    ELSE IF \E k \in 1..Len(resume_data.experience.v) :
               resume_data.experience.v[k].description.t \notin {"absent", "str"}
    THEN Raise
    ELSE List(skills_periods_from(
                  SelectSeq(resume_data.experience.v,
                            LAMBDA exp : exp.description.t = "str"), <<>>))

\* `skill_period.get("period_months", 0) or 0`
MonthsOrZero(value) == IF value.t = "int" THEN value.v ELSE 0

\* lines 128-146: one entry added to skills_summary
summary_add(skills_summary, skill_period) ==
    LET name == skill_period.skill
        before == IF HasKey(skills_summary, name)
                  THEN skills_summary[KeyIndex(skills_summary, name)].v
                  ELSE [skill |-> name, total_months |-> 0,
                        contexts |-> <<>>, companies |-> <<>>]
        after == [before EXCEPT
                    !.total_months = @ + MonthsOrZero(skill_period.period_months),
                    !.contexts = IF Truthy(skill_period.context)
                                 THEN Append(@, skill_period.context) ELSE @,
                    !.companies = IF Truthy(skill_period.company)
                                  THEN Append(@, skill_period.company) ELSE @]
    IN DictSet(skills_summary, name, after)

RECURSIVE skills_summary_from(_, _)
skills_summary_from(skills_periods, acc) ==
    IF skills_periods = <<>> THEN acc
    ELSE skills_summary_from(Tail(skills_periods), summary_add(acc, Head(skills_periods)))

\* lines 123-154 with threshold=0.8: total_months is an int, so >= 0.8 is >= 1
_sum_skills_periods(skills_periods) ==
    LET summary == skills_summary_from(skills_periods, <<>>)
        values == [k \in 1..Len(summary) |-> summary[k].v]
    IN SelectSeq(values, LAMBDA skill_data : skill_data.total_months * 10 >= 8)

\* lines 168-174 for one skill of a group: the first summed skill with the
\* same lower-cased name sets the group's fields
RECURSIVE group_after_skills(_, _, _)
group_after_skills(skill_group, skills, summed) ==
    IF skills = <<>> THEN skill_group
    ELSE LET hits == {k \in 1..Len(summed) : lower(Head(skills).v) = lower(summed[k].skill)}
             first == CHOOSE k \in hits : \A h \in hits : k <= h
         IN group_after_skills(
                IF hits = {} THEN skill_group
                ELSE [skill_group EXCEPT
                         !.experience_months = IntOf(summed[first].total_months),
                         !.contexts = List(summed[first].contexts)],
                Tail(skills), summed)

\* the skills of a group up to the first one without lower(), and whether
\* there is one
StrPrefix(skills) ==
    LET bad == {k \in 1..Len(skills) : skills[k].t # "str"}
        stop == IF bad = {} THEN Len(skills) + 1 ELSE CHOOSE k \in bad : \A b \in bad : k <= b
    IN [skills |-> SubSeq(skills, 1, stop - 1), raised |-> bad # {}]

RECURSIVE groups_after(_, _, _)
\* lines 166-174 over the groups: [groups, raised]; the groups before the one
\* that raises, and that group's skills before the one that raises, are done
groups_after(groups, summed, done) ==
    IF groups = <<>> THEN [groups |-> done, raised |-> FALSE]
    ELSE LET g == Head(groups)
             items == IF g.skills.t = "list" THEN g.skills.v ELSE <<>>
             prefix == IF summed = <<>> THEN [skills |-> <<>>, raised |-> FALSE]
                       ELSE StrPrefix(items)
             after == group_after_skills(g, prefix.skills, summed)
         IN IF prefix.raised
            THEN [groups |-> done \o <<after>> \o Tail(groups), raised |-> TRUE]
            ELSE groups_after(Tail(groups), summed, Append(done, after))

\* lines 156-176: [raised, resume_data, enhanced_data]; the groups are shared
\* by resume_data and its copy
_update_existing_skills(summed, resume_data) ==
    LET r == IF resume_data.skills.t = "absent"
             THEN [groups |-> <<>>, raised |-> FALSE]
             ELSE groups_after(resume_data.skills.v, summed, <<>>)
        skills == IF resume_data.skills.t = "absent" THEN Absent ELSE List(r.groups)
        shared == [resume_data EXCEPT !.skills = skills]
    IN [raised |-> r.raised,
        resume_data |-> shared,
        enhanced_data |-> [shared EXCEPT !.enhanced_skills =
                              [skills_with_experience |-> summed,
                               total_skills |-> Len(summed),
                               analysis_timestamp |-> datetime_now]]]

\* variant: the except clause lets the exception through
enhance_except_reraise(resume_data) == [raised |-> TRUE, value |-> resume_data]

\* lines 44-46: the exception is logged and resume_data is returned
enhance_except(resume_data) == [raised |-> FALSE, value |-> resume_data]

Experience(dur, desc, title) ==
    [duration |-> dur, description |-> desc, title |-> title, company |-> Absent,
     start_date |-> Absent, end_date |-> Absent, period_months |-> Absent]

Backend == <<"B", "a", "c", "k", "e", "n", "d">>

\* the entries an 'experience' list is drawn from; the last is no dict
ExperienceRecords ==
    << Experience(Str(Jan2020ToJan2021), Str(Python \o <<",", " ">> \o SQL), Str(Backend)),
       Experience(Str(Feb2021ToPresent), Str(common_skills[3]), Absent),
       Experience(Absent, None, Absent),
       Experience(Number, Absent, Str(Backend)),
       Str(Backend) >>

SkillGroup(category, skills) ==
    [category |-> category, skills |-> skills, count |-> Absent,
     experience_months |-> Absent, contexts |-> Absent]

\* the values of 'skills': the key missing, None, or a list of groups
SkillGroupValues ==
    << Absent,
       None,
       List(<<SkillGroup(Absent, List(<<Str(python), Str(SQL)>>))>>),
       List(<<SkillGroup(Str(Backend), Number)>>),
       List(<<SkillGroup(Str(Backend), List(<<Str(Java), Number, Str(SQL)>>))>>),
       List(<<Str(Backend), SkillGroup(Absent, Absent),
              SkillGroup(Str(Backend), List(<<Str(SQL), Str(Java)>>))>>) >>

\* the longest 'experience' list
MaxExperience == 2

ExperienceValues ==
    {Absent, None} \cup
    UNION {{List([k \in 1..n |-> ExperienceRecords[e[k]]]) :
               e \in [1..n -> 1..Len(ExperienceRecords)]} : n \in 0..MaxExperience}

\* ai_analysis, the argument of enhance_skills: a mapping, or None
InitEnhance ==
    /\ pc = "enhance_skills"
    /\ now = <<2022, 1, 31>>
    /\ clock = 1
    /\ \/ data = None
       \/ \E e \in ExperienceValues, g \in 1..Len(SkillGroupValues) :
             data = [experience |-> e, skills |-> SkillGroupValues[g],
                     enhanced_skills |-> Absent]
    /\ results0 = data
    /\ skills_periods_list = <<>>
    /\ summed_skills = <<>>
    /\ i = 0
    /\ best_match = 0
    /\ best_score = Inf
    /\ duration = Str(<<>>)
    /\ parsed = Tuple(None, None)
    /\ period_months = Absent
    /\ threshold = SumThreshold
    /\ enhanced_data = Absent
    /\ req = <<>>
    /\ fs = <<>>
    /\ llama = <<>>

\* lines 29-30; an exception is taken to the except clause of line 44
EnhanceAddPeriodFields ==
    /\ pc = "enhance_skills"
    /\ IF ~isinstance_dict(data)
       THEN pc' = "except" /\ UNCHANGED data
       ELSE IF data.experience.t = "absent"
       THEN pc' = "_format_skills" /\ UNCHANGED data
       ELSE \E r \in {_add_period_fields(data.experience)} :
               IF r.t = "raise"
               THEN pc' = "except" /\ UNCHANGED data
               ELSE pc' = "_format_skills" /\ data' = [data EXCEPT !.experience = r]
    /\ UNCHANGED <<now, results0, skills_periods_list, summed_skills, i, best_match,
                   best_score, duration, parsed, period_months, clock, threshold,
                   enhanced_data, req, fs, llama>>

\* lines 32-33
EnhanceFormatSkills ==
    /\ pc = "_format_skills"
    /\ IF data.skills.t = "absent"
       THEN pc' = "_extract_skills_periods" /\ UNCHANGED data
       ELSE \E r \in {_format_skills(data.skills)} :
               IF r.t = "raise"
               THEN pc' = "except" /\ UNCHANGED data
               ELSE pc' = "_extract_skills_periods" /\ data' = [data EXCEPT !.skills = r]
    /\ UNCHANGED <<now, results0, skills_periods_list, summed_skills, i, best_match,
                   best_score, duration, parsed, period_months, clock, threshold,
                   enhanced_data, req, fs, llama>>

\* line 35
EnhanceExtractSkillsPeriods ==
    /\ pc = "_extract_skills_periods"
    /\ \E r \in {_extract_skills_periods(data)} :
          IF r.t = "raise"
          THEN pc' = "except" /\ UNCHANGED skills_periods_list
          ELSE pc' = "_sum_skills_periods" /\ skills_periods_list' = r.v
    /\ UNCHANGED <<now, results0, data, summed_skills, i, best_match,
                   best_score, duration, parsed, period_months, clock, threshold,
                   enhanced_data, req, fs, llama>>

\* line 37
EnhanceSumSkillsPeriods ==
    /\ pc = "_sum_skills_periods"
    /\ pc' = "_update_existing_skills"
    /\ summed_skills' = _sum_skills_periods(skills_periods_list)
    /\ UNCHANGED <<now, results0, data, skills_periods_list, i, best_match,
                   best_score, duration, parsed, period_months, clock, threshold,
                   enhanced_data, req, fs, llama>>

\* lines 39-42
EnhanceUpdateExistingSkills ==
    /\ pc = "_update_existing_skills"
    /\ \E r \in {_update_existing_skills(summed_skills, data)} :
          /\ data' = r.resume_data
          /\ IF r.raised
             THEN pc' = "except" /\ UNCHANGED enhanced_data
             ELSE pc' = "returned" /\ enhanced_data' = r.enhanced_data
    /\ UNCHANGED <<now, results0, skills_periods_list, summed_skills, i, best_match,
                   best_score, duration, parsed, period_months, clock, threshold, req, fs, llama>>

\* lines 44-46
EnhanceExcept ==
    /\ pc = "except"
    /\ \E r \in {enhance_except(data)} :
          IF r.raised
          THEN pc' = "raised" /\ UNCHANGED enhanced_data
          ELSE pc' = "returned" /\ enhanced_data' = r.value
    /\ UNCHANGED <<now, results0, data, skills_periods_list, summed_skills, i, best_match,
                   best_score, duration, parsed, period_months, clock, threshold, req, fs, llama>>

\* resume_service.py 49-67: final_result is built from what enhance_skills
\* returned; an exception is logged and raised again
ProcessResume ==
    /\ pc \in {"returned", "raised"}
    /\ pc' = IF pc = "raised" THEN "failed" ELSE "final_result"
    /\ UNCHANGED <<now, results0, data, skills_periods_list, summed_skills, i, best_match,
                   best_score, duration, parsed, period_months, clock, threshold,
                   enhanced_data, req, fs, llama>>

NextEnhance ==
    \/ EnhanceAddPeriodFields
    \/ EnhanceFormatSkills
    \/ EnhanceExtractSkillsPeriods
    \/ EnhanceSumSkillsPeriods
    \/ EnhanceUpdateExistingSkills
    \/ EnhanceExcept
    \/ ProcessResume

SpecEnhance == InitEnhance /\ [][NextEnhance]_vars

----------------------------------------------------------------------------
(* The temporary upload of the extract endpoints: extract_cv_info (main.py    *)
(* 57-109) and extract_resume_info (routers/resume.py 12-52) with             *)
(* cleanup_temp_files (utils/file_utils.py 53-71).  Requests of one           *)
(* application run on one event loop; a handler gives way to another only     *)
(* where it awaits: at `await pdf_file.read()` and, in main.py, inside        *)
(* process, whose asyncio.run (extractFromPdf.py 163) runs the loop again.    *)
(* A file is an inode named by the request that created it; fs.link maps a    *)
(* file name of the temp directory to its inode, 0 when there is none.        *)

Requests == {1, 2}
Filenames == {"a.pdf", "b.pdf"}

\* the bytes a request uploads, marked with the request
Uploads(r) == {<<r>>, <<r, r>>}

\* f.write(content) at offset 0 of a file that holds old
Overlay(old, content) == content \o SubSeq(old, Len(content) + 1, Len(old))

\* open(pdf_path, "wb") by request r: [fs, fd]; the file is created empty, or
\* the file of that name is truncated
open_wb(files, name, r) ==
    IF files.link[name] = 0
    THEN [fs |-> [files EXCEPT !.link[name] = r, !.bytes[r] = <<>>], fd |-> r]
    ELSE [fs |-> [files EXCEPT !.bytes[files.link[name]] = <<>>],
          fd |-> files.link[name]]

\* variant: the directory is removed whatever it holds
cleanup_temp_files_rmdir(files, name) ==
    [files EXCEPT !.link[name] = 0, !.dir = FALSE]

\* file_utils.py 62-67 and main.py 105-109: the file is removed if it exists,
\* then the directory if it is a directory and lists nothing
cleanup_temp_files(files, name) ==
    LET removed == [files EXCEPT !.link[name] = 0]
    IN IF removed.dir /\ \A other \in Filenames : removed.link[other] = 0
       THEN [removed EXCEPT !.dir = FALSE]
       ELSE removed

\* what a request has read from its pdf_path
Unread == [state |-> "unread", bytes |-> <<>>]
ReadOf(files, name) ==
    IF files.link[name] = 0 THEN [state |-> "missing", bytes |-> <<>>]
    ELSE [state |-> "read", bytes |-> files.bytes[files.link[name]]]

\* two requests of one endpoint, before their handlers start
InitUpload ==
    /\ \E endpoint \in {"extract_cv_info", "extract_resume_info"} :
          \E names \in [Requests -> Filenames], valid \in [Requests -> BOOLEAN] :
              \E c1 \in Uploads(1), c2 \in Uploads(2) :
                  req = [r \in Requests |->
                            [pc |-> "start", endpoint |-> endpoint,
                             filename |-> names[r],
                             valid |-> IF endpoint = "extract_cv_info" THEN TRUE
                                       ELSE valid[r],
                             content |-> IF r = 1 THEN c1 ELSE c2,
                             fd |-> 0, processed |-> Unread, status |-> "pending"]]
    /\ \E detector \in BOOLEAN :
          fs = [dir |-> FALSE, link |-> [n \in Filenames |-> 0],
                bytes |-> [r \in Requests |-> <<>>], detector |-> detector]
    /\ pc = "serving"
    /\ now = <<2026, 11, 4>>
    /\ results0 = <<>>
    /\ data = <<>>
    /\ skills_periods_list = <<>>
    /\ summed_skills = <<>>
    /\ i = 0
    /\ best_match = 0
    /\ best_score = Inf
    /\ duration = Str(<<>>)
    /\ parsed = Tuple(None, None)
    /\ period_months = Absent
    /\ clock = 1
    /\ threshold = UpdateThreshold
    /\ enhanced_data = Absent
    /\ llama = <<>>

\* main.py 60-68: the directory is made, the file opened for writing, and the
\* handler awaits the upload
CvOpen(r) ==
    /\ req[r].endpoint = "extract_cv_info"
    /\ req[r].pc = "start"
    /\ \E o \in {open_wb([fs EXCEPT !.dir = TRUE], req[r].filename, r)} :
          /\ fs' = o.fs
          /\ req' = [req EXCEPT ![r].pc = "read", ![r].fd = o.fd]
    /\ UNCHANGED <<pc, now, results0, data, skills_periods_list, summed_skills, i,
                   best_match, best_score, duration, parsed, period_months, clock,
                   threshold, enhanced_data, llama>>

\* main.py 69-77: the upload is written through the open file; without a
\* detector the handler ends with HTTP 500 and its finally clause (103-109),
\* otherwise it enters process, which runs the event loop
CvWrite(r) ==
    /\ req[r].endpoint = "extract_cv_info"
    /\ req[r].pc = "read"
    /\ \E written \in {[fs EXCEPT !.bytes[req[r].fd] = Overlay(@, req[r].content)]} :
          IF written.detector
          THEN /\ fs' = written
               /\ req' = [req EXCEPT ![r].pc = "process"]
          ELSE /\ fs' = cleanup_temp_files(written, req[r].filename)
               /\ req' = [req EXCEPT ![r].pc = "finished", ![r].status = "http_error"]
    /\ UNCHANGED <<pc, now, results0, data, skills_periods_list, summed_skills, i,
                   best_match, best_score, duration, parsed, period_months, clock,
                   threshold, enhanced_data, llama>>

\* extractFromPdf.py 199-221 and main.py 78-109: after the loop has run,
\* process reads pdf_path for the links and the image (a missing file leaves
\* results empty and results[0] raises), the handler answers or ends with
\* HTTP 500, and its finally clause runs
CvProcess(r) ==
    /\ req[r].endpoint = "extract_cv_info"
    /\ req[r].pc = "process"
    /\ \E read \in {ReadOf(fs, req[r].filename)} :
          \E status \in IF read.state = "missing" THEN {"error"} ELSE {"ok", "error"} :
              req' = [req EXCEPT ![r].pc = "finished", ![r].processed = read,
                                 ![r].status = status]
    /\ fs' = cleanup_temp_files(fs, req[r].filename)
    /\ UNCHANGED <<pc, now, results0, data, skills_periods_list, summed_skills, i,
                   best_match, best_score, duration, parsed, period_months, clock,
                   threshold, enhanced_data, llama>>

\* routers/resume.py 26-35: a file that fails validation ends with HTTP 400
\* before pdf_path is set; otherwise the directory is made and the handler
\* awaits the upload
ResumeStart(r) ==
    /\ req[r].endpoint = "extract_resume_info"
    /\ req[r].pc = "start"
    /\ IF req[r].valid
       THEN /\ fs' = [fs EXCEPT !.dir = TRUE]
            /\ req' = [req EXCEPT ![r].pc = "read"]
       ELSE /\ fs' = fs
            /\ req' = [req EXCEPT ![r].pc = "finished", ![r].status = "http_error"]
    /\ UNCHANGED <<pc, now, results0, data, skills_periods_list, summed_skills, i,
                   best_match, best_score, duration, parsed, period_months, clock,
                   threshold, enhanced_data, llama>>

\* routers/resume.py 36-52: the file is opened and written (open raises when
\* the directory is gone: HTTP 500), process_resume reads it without giving
\* way, the handler answers or ends with HTTP 500, and cleanup_temp_files runs
ResumeSaveAndProcess(r) ==
    /\ req[r].endpoint = "extract_resume_info"
    /\ req[r].pc = "read"
    /\ IF ~fs.dir
       THEN /\ fs' = cleanup_temp_files(fs, req[r].filename)
            /\ req' = [req EXCEPT ![r].pc = "finished", ![r].status = "http_error",
                                  ![r].processed = [state |-> "unsaved", bytes |-> <<>>]]
       ELSE \E o \in {open_wb(fs, req[r].filename, r)} :
               \E written \in {[o.fs EXCEPT !.bytes[o.fd] = Overlay(@, req[r].content)]} :
                   /\ fs' = cleanup_temp_files(written, req[r].filename)
                   /\ \E status \in {"ok", "error"} :
                         req' = [req EXCEPT ![r].pc = "finished", ![r].fd = o.fd,
                                            ![r].processed = ReadOf(written, req[r].filename),
                                            ![r].status = status]
    /\ UNCHANGED <<pc, now, results0, data, skills_periods_list, summed_skills, i,
                   best_match, best_score, duration, parsed, period_months, clock,
                   threshold, enhanced_data, llama>>

NextUpload ==
    \E r \in Requests :
        \/ CvOpen(r)
        \/ CvWrite(r)
        \/ CvProcess(r)
        \/ ResumeStart(r)
        \/ ResumeSaveAndProcess(r)

SpecUpload == InitUpload /\ [][NextUpload]_vars

----------------------------------------------------------------------------
(* extract_text_with_llama (extractFromPdf.py 120-154).  llama.log lists      *)
(* what the call did, in order: "attempt" for each parser.aload_data,         *)
(* "sleep" for each asyncio.sleep(delay), "fallback" for pdfminer's           *)
(* extract_text; llama.errors lists the exceptions line 142 logged.  The     *)
(* library calls (the LlamaParse constructor, aload_data,  *)
(* extract_text) return or raise as the library decides.                      *)

MaxRetries == 3

\* the max_retries a caller passes; process (163) passes none, the default 2
RetryCounts == 0..MaxRetries

Newline == "\n"

\* what aload_data returns: a list of documents, by their text; None is a
\* document without text
DocumentLists ==
    {<<>>, <<Str(<<"a">>)>>, <<Str(<<>>)>>, <<Str(<<"a">>), Str(<<"b">>)>>,
     <<None>>, <<Str(<<"a">>), None>>}

\* what pdfminer's extract_text returns
PdfminerTexts == {<<>>, <<"p">>}

\* lines 134-137: result += t.text + "\n" for each document; the
\* concatenation raises for a text that is not a string
join_raises(docs) == \E k \in 1..Len(docs) : docs[k].t # "str"

RECURSIVE join_text(_)
join_text(docs) ==
    IF docs = <<>> THEN <<>>
    ELSE docs[1].v \o <<Newline>> \o join_text(Tail(docs))

InitLlama ==
    /\ \E max_retries \in RetryCounts, delay \in {0, 5} :
          llama = [pc |-> "start", max_retries |-> max_retries, delay |-> delay,
                   attempt |-> 0, log |-> <<>>, errors |-> <<>>, slept |-> 0,
                   returned |-> Absent]
    /\ pc = "extract_text_with_llama"
    /\ now = <<2026, 11, 4>>
    /\ results0 = <<>>
    /\ data = <<>>
    /\ skills_periods_list = <<>>
    /\ summed_skills = <<>>
    /\ i = 0
    /\ best_match = 0
    /\ best_score = Inf
    /\ duration = Str(<<>>)
    /\ parsed = Tuple(None, None)
    /\ period_months = Absent
    /\ clock = 1
    /\ threshold = UpdateThreshold
    /\ enhanced_data = Absent
    /\ req = <<>>
    /\ fs = <<>>

\* lines 129-130, and 148-154 when the loop ends: the state after the loop
\* test, the fallback included
after_loop_test(l, pdfminer) ==
    IF l.attempt < l.max_retries THEN [l EXCEPT !.pc = "attempt"]
    ELSE [l EXCEPT !.pc = "returned", !.log = Append(@, "fallback"),
                   !.returned = IF pdfminer.raised THEN Str(<<>>)
                                ELSE Str(pdfminer.text)]

\* the outcomes of extract_text(pdf_path)
PdfminerOutcomes ==
    {[raised |-> TRUE, text |-> <<>>]}
        \cup {[raised |-> FALSE, text |-> text] : text \in PdfminerTexts}

\* lines 121-130: the parser is constructed, outside every try, and the loop
\* is entered
LlamaParseConstruct ==
    /\ llama.pc = "start"
    /\ \E raised \in BOOLEAN, pdfminer \in PdfminerOutcomes :
          llama' = IF raised THEN [llama EXCEPT !.pc = "raised"]
                   ELSE after_loop_test([llama EXCEPT !.attempt = 0], pdfminer)
    /\ UNCHANGED <<pc, now, results0, data, skills_periods_list, summed_skills, i,
                   best_match, best_score, duration, parsed, period_months, clock,
                   threshold, enhanced_data, req, fs>>

\* lines 131-146: one attempt; a list with documents is joined and returned,
\* anything else (an exception of aload_data, an empty list, a text that
\* cannot be joined) is logged, attempt is incremented and, if another
\* attempt is due, the call sleeps
AloadData ==
    /\ llama.pc = "attempt"
    /\ \E raised \in BOOLEAN, docs \in DocumentLists, pdfminer \in PdfminerOutcomes :
          \E tried \in {[llama EXCEPT !.log = Append(@, "attempt")]},
             e \in {IF raised THEN "Exception" ELSE IF docs = <<>> THEN "ValueError"
                    ELSE "TypeError"} :
              llama' =
                  IF ~raised /\ docs # <<>> /\ ~join_raises(docs)
                  THEN [tried EXCEPT !.pc = "returned",
                                     !.returned = Str(join_text(docs))]
                  ELSE IF llama.attempt + 1 < llama.max_retries
                  THEN [tried EXCEPT !.attempt = @ + 1, !.pc = "sleep",
                                     !.errors = Append(@, e),
                                     !.log = Append(@, "sleep")]
                  ELSE after_loop_test([tried EXCEPT !.attempt = @ + 1,
                                                     !.errors = Append(@, e)],
                                       pdfminer)
    /\ UNCHANGED <<pc, now, results0, data, skills_periods_list, summed_skills, i,
                   best_match, best_score, duration, parsed, period_months, clock,
                   threshold, enhanced_data, req, fs>>

\* line 146 and 129-130: asyncio.sleep(delay) ends and the loop test runs
SleepEnds ==
    /\ llama.pc = "sleep"
    /\ \E pdfminer \in PdfminerOutcomes :
          llama' = after_loop_test([llama EXCEPT !.slept = @ + llama.delay], pdfminer)
    /\ UNCHANGED <<pc, now, results0, data, skills_periods_list, summed_skills, i,
                   best_match, best_score, duration, parsed, period_months, clock,
                   threshold, enhanced_data, req, fs>>

NextLlama ==
    \/ LlamaParseConstruct
    \/ AloadData
    \/ SleepEnds

SpecLlama == InitLlama /\ [][NextLlama]_vars

----------------------------------------------------------------------------
(* Notions the properties are stated in *)

\* similarity = 1 - edit_distance(lower(a), lower(b)) / max(len(a), len(b)),
\* 1.0 when both names are empty, compared exactly with threshold num/den
SimilarityAtLeast(a, b, thr) ==
    LET longest == Max(Len(a), Len(b))
    IN IF longest = 0 THEN TRUE
       ELSE (longest - levenshtein_distance(lower(a), lower(b))) * thr[2]
                >= thr[1] * longest

SimilarityAbove(a, b, thr) ==
    LET longest == Max(Len(a), Len(b))
    IN IF longest = 0 THEN TRUE
       ELSE (longest - levenshtein_distance(lower(a), lower(b))) * thr[2]
                > thr[1] * longest

\* names[m] is as similar to skill as any of the names
MostSimilar(skill, names, m) ==
    \A k \in 1..Len(names) :
        ~ScoreLess(NormalizedScore(skill, names[k]), NormalizedScore(skill, names[m]))

\* names[m] is the first of the names most similar to skill
EarliestMostSimilar(skill, names, m) ==
    /\ MostSimilar(skill, names, m)
    /\ \A k \in 1..(m - 1) :
           ScoreLess(NormalizedScore(skill, names[m]), NormalizedScore(skill, names[k]))

\* the entries of a dict other than entry m are the same in after as in before
OnlyEntryChanged(before, after, m) ==
    /\ Len(after) = Len(before)
    /\ \A k \in 1..Len(before) : k # m =>
           /\ after[k].k = before[k].k
           /\ after[k].v.t = before[k].v.t
           /\ after[k].v.v = before[k].v.v

\* an iteration of the loop of sum_skills_periods that did not raise
SumStepTaken ==
    pc = "sum_skills_periods" /\ pc' = "sum_skills_periods" /\ i' = i + 1

\* an iteration of the loop of update_existing_skills that did not raise
UpdateStepTaken ==
    pc = "update_existing_skills" /\ pc' = "update_existing_skills" /\ i' = i + 1

\* the sections with a duration, after add_period_field
Sections == data.work_experience.v \o data.projects.v

PlusPeriod(p, q) == <<p[1] + q[1], p[2] + q[2], p[3] + q[3]>>

----------------------------------------------------------------------------
(* C1: no period stored by add_period_field has a negative component, and a  *)
(* duration whose end date is not after its start date gets the period       *)
(* (0, 0, 0).                                                                *)
C1_PeriodNeverNegative ==
    pc # "add_period_field" =>
        \A n \in 1..Len(Sections) :
            Sections[n].period.t = "list" =>
                LET dates == search_dates(add_spaces_around_delimiter(
                                 upper(Sections[n].duration.v))).v
                    period == Sections[n].period.v
                IN /\ \A k \in 1..3 : period[k] >= 0
                   /\ (Len(dates) > 1 /\ ~DateLess(dates[1], dates[2]))
                          => period = <<0, 0, 0>>

(* C2: a pair handled by sum_skills_periods while clusters exist is summed   *)
(* into the most similar cluster, whose name stays as it is, exactly when    *)
(* that similarity is at least the threshold 0.8; otherwise it starts a new  *)
(* cluster under its own name.                                               *)
C2_MergedIffSimilarityAtLeastThreshold ==
    [][SumStepTaken =>
        LET skill == skills_periods_list[i].k
            names == Keys(summed_skills)
        IN IF \E k \in 1..Len(names) : SimilarityAtLeast(skill, names[k], SumThreshold)
           THEN \E m \in 1..Len(names) :
                    /\ MostSimilar(skill, names, m)
                    /\ OnlyEntryChanged(
                           [k \in 1..Len(names) |->
                               [k |-> names[k], v |-> List(summed_skills[k].v)]],
                           [k \in 1..Len(summed_skills') |->
                               [k |-> summed_skills'[k].k, v |-> List(summed_skills'[k].v)]],
                           m)
                    /\ summed_skills'[m].k = names[m]
           ELSE /\ Len(summed_skills') = Len(names) + 1
                /\ \A k \in 1..Len(names) : summed_skills'[k] = summed_skills[k]
                /\ summed_skills'[Len(names) + 1].k = skill]_vars

(* C3: when several clusters of sum_skills_periods, or several keys of the   *)
(* skills map in update_existing_skills, are equally most similar to the     *)
(* incoming name, the first of them in scan order is the one selected.       *)
C3_TieGoesToEarliest ==
    [][/\ SumStepTaken /\ summed_skills # <<>> =>
            /\ best_match' \in 1..Len(summed_skills)
            /\ EarliestMostSimilar(skills_periods_list[i].k, Keys(summed_skills),
                                   best_match')
            /\ Len(summed_skills') = Len(summed_skills) =>
                   \A k \in 1..Len(summed_skills) :
                       k # best_match' => summed_skills'[k] = summed_skills[k]
       /\ UpdateStepTaken /\ data.skills.v # <<>> =>
            /\ best_match' \in 1..Len(data.skills.v)
            /\ EarliestMostSimilar(summed_skills[i].k, Keys(data.skills.v), best_match')
            /\ Len(data'.skills.v) = Len(data.skills.v) =>
                   OnlyEntryChanged(data.skills.v, data'.skills.v, best_match')]_vars

\* a pair was merged into the first of two clusters equally similar to it
C3_Witness ==
    /\ pc = "sum_skills_periods"
    /\ i > 1
    /\ best_match > 0
    /\ WithinOneMinus(best_score, SumThreshold)
    /\ \E k \in (best_match + 1)..Len(summed_skills) :
           LET sc == NormalizedScore(skills_periods_list[i - 1].k, summed_skills[k].k)
           IN ~ScoreLess(sc, best_score) /\ ~ScoreLess(best_score, sc)

(* C4: two pairs whose names are more similar than the threshold give, in    *)
(* either order, one cluster named as the first pair and holding the sum of  *)
(* the two periods.                                                          *)
C4_TwoSimilarPairsOneCluster ==
    (/\ pc \in {"update_existing_skills", "done", "error"}
     /\ Len(skills_periods_list) = 2
     /\ skills_periods_list[1].v.t = "list"
     /\ skills_periods_list[2].v.t = "list"
     /\ SimilarityAbove(skills_periods_list[1].k, skills_periods_list[2].k, SumThreshold))
    => /\ Len(summed_skills) = 1
       /\ summed_skills[1].k = skills_periods_list[1].k
       /\ summed_skills[1].v = PlusPeriod(skills_periods_list[1].v.v,
                                          skills_periods_list[2].v.v)

\* two pairs with different, similar names and different periods were summed
C4_Witness ==
    /\ pc = "update_existing_skills"
    /\ Len(skills_periods_list) = 2
    /\ skills_periods_list[1].v.t = "list"
    /\ skills_periods_list[2].v.t = "list"
    /\ skills_periods_list[1].k # skills_periods_list[2].k
    /\ skills_periods_list[1].v.v # skills_periods_list[2].v.v
    /\ skills_periods_list[2].k = Python2
    /\ SimilarityAbove(skills_periods_list[1].k, skills_periods_list[2].k, SumThreshold)

(* C5: update_existing_skills never removes a key: every key of the skills   *)
(* map is still a key after each record is processed.                        *)
C5_KeysNeverRemoved ==
    [][data.skills.t = "dict" =>
        /\ data'.skills.t = "dict"
        /\ \A k \in 1..Len(data.skills.v) :
               HasKey(data'.skills.v, data.skills.v[k].k)]_vars

\* a record was merged into a key the flat skills list had brought
C5_Witness ==
    /\ pc = "update_existing_skills"
    /\ i > 1
    /\ best_match > 0
    /\ WithinThreshold(best_score, UpdateThreshold)
    /\ Len(results0.skills.v) >= best_match
    /\ data.skills.v[best_match].k # summed_skills[i - 1].k

(* C6: update_existing_skills adds a key for a record only when no key of    *)
(* the map has similarity at least 0.5 to the record's name; when one has,   *)
(* the value of a most similar key is overwritten and no key is added.       *)
C6_KeyAddedOnlyWithoutMatch ==
    [][UpdateStepTaken =>
        LET skill == summed_skills[i].k
            value == JoinPeriod(summed_skills[i].v)
            keys == Keys(data.skills.v)
            after == data'.skills.v
        IN IF \E k \in 1..Len(keys) : SimilarityAtLeast(skill, keys[k], UpdateThreshold)
           THEN \E m \in 1..Len(keys) :
                    /\ MostSimilar(skill, keys, m)
                    /\ OnlyEntryChanged(data.skills.v, after, m)
                    /\ after[m].k = keys[m]
                    /\ after[m].v.v = value.v
           ELSE /\ Len(after) = Len(keys) + 1
                /\ OnlyEntryChanged(data.skills.v, SubSeq(after, 1, Len(keys)), 0)
                /\ after[Len(after)].k = skill
                /\ after[Len(after)].v.v = value.v]_vars

\* a record whose similarity to a key is exactly the threshold 0.5 was merged
C6_Witness ==
    /\ pc = "update_existing_skills"
    /\ i > 1
    /\ best_match > 0
    /\ best_score[1] * UpdateThreshold[2] = UpdateThreshold[1] * best_score[2]
    /\ Len(data.skills.v) = Len(results0.skills.v)

\* the first key equal to the name when letter case is ignored
EarliestCaseless(keys, skill) ==
    CHOOSE m \in 1..Len(keys) :
        /\ lower(keys[m]) = lower(skill)
        /\ \A k \in 1..(m - 1) : lower(keys[k]) # lower(skill)

\* the record of this iteration, merged into the map once more, changes nothing
MergedAgainUnchanged ==
    LET again == update_skills_step(data'.skills.v, summed_skills[i].k,
                                    summed_skills[i].v, UpdateThreshold).skills
    IN /\ Len(again) = Len(data'.skills.v)
       /\ OnlyEntryChanged(data'.skills.v, again, 0)

(* C7, as claimed: merging a record whose name is exactly a key of the map   *)
(* changes the value of that key only, keeps the number of keys, and a       *)
(* second merge of the same record changes nothing.                          *)
C7_ExactNameChangesOnlyThatKey ==
    [][(UpdateStepTaken /\ HasKey(data.skills.v, summed_skills[i].k)) =>
        LET m == KeyIndex(data.skills.v, summed_skills[i].k)
        IN /\ OnlyEntryChanged(data.skills.v, data'.skills.v, m)
           /\ data'.skills.v[m].k = data.skills.v[m].k
           /\ data'.skills.v[m].v.v = JoinPeriod(summed_skills[i].v).v
           /\ MergedAgainUnchanged]_vars

(* C7, amended: merging a record whose name is exactly a key of the map      *)
(* changes the value of one key only, the first key equal to the name when   *)
(* letter case is ignored; the number of keys is kept and a second merge of  *)
(* the same record changes nothing.                                          *)
C7_ExactNameChangesEarliestCaselessKey ==
    [][(UpdateStepTaken /\ HasKey(data.skills.v, summed_skills[i].k)) =>
        LET m == EarliestCaseless(Keys(data.skills.v), summed_skills[i].k)
        IN /\ OnlyEntryChanged(data.skills.v, data'.skills.v, m)
           /\ data'.skills.v[m].k = data.skills.v[m].k
           /\ data'.skills.v[m].v.v = JoinPeriod(summed_skills[i].v).v
           /\ MergedAgainUnchanged]_vars

\* a record was merged into a key spelled exactly like it, other keys present
C7_Witness ==
    /\ pc = "update_existing_skills"
    /\ i > 1
    /\ best_match > 0
    /\ Len(data.skills.v) > 1
    /\ Len(data.skills.v) = Len(results0.skills.v)
    /\ data.skills.v[best_match].k = summed_skills[i - 1].k

\* the two experience records of the scenario, and nothing else
ScenarioInput ==
    /\ results0.work_experience.v = <<WorkRecords[1], WorkRecords[2]>>
    /\ results0.projects.t = "absent"
    /\ results0.internship.t = "absent"
    /\ results0.skills.t = "list"
    /\ results0.skills.v = <<>>

(* C8: with the experience records ('Jan 2020 - Jan 2021', 'Python, SQL')    *)
(* and ('Feb 2021 - Present', 'python, Java') the handler ends with a skills *)
(* map of three entries: Python with the sum of both periods, SQL with the   *)
(* first period, Java with the second.                                       *)
C8_EndToEndScenario ==
    (ScenarioInput /\ pc \in {"done", "error"}) =>
        LET p1 == data.work_experience.v[1].period.v
            p2 == data.work_experience.v[2].period.v
        IN /\ pc = "done"
           /\ p1 = <<1, 0, 0>>
           /\ Keys(data.skills.v) = <<Python, SQL, Java>>
           /\ data.skills.v[1].v.v = JoinPeriod(PlusPeriod(p1, p2)).v
           /\ data.skills.v[2].v.v = JoinPeriod(p1).v
           /\ data.skills.v[3].v.v = JoinPeriod(p2).v

\* the handler has returned the skills map of the scenario
C8_Witness ==
    /\ ScenarioInput
    /\ pc = "done"
    /\ Len(data.skills.v) = 3
    /\ data.work_experience.v[2].period.v # <<0, 0, 0>>

\* the duration holds one of the separators _parse_duration splits on
HasSeparator(d) == In(Dash, d) \/ In(To, d)

\* the text of side n (1 the start, 2 the end) of a duration with a separator
SideText(d, n) == strip(split(d, IF In(Dash, d) THEN Dash ELSE To)[n])

\* the text matches one of the date formats
MatchesAFormat(s) ==
    \E k \in 1..Len(date_formats) : strptime(lower(strip(s)), date_formats[k]).t = "datetime"

\* the text holds 'present' or 'current' in some letter case
NamesNow(s) == ContainsWord(lower(s), "present") \/ ContainsWord(lower(s), "current")

IsNow(x) == x.t = "datetime" /\ x.v = now

(* C9: _parse_duration returns a pair for every input and never raises; a    *)
(* side that matches no date format (and does not name the present) is None, *)
(* so 'not a date' gives (None, None).                                       *)
C9_NeverRaisesUnparseableIsNone ==
    pc = "parsed" =>
        /\ parsed.t = "tuple"
        /\ duration.t = "str" =>
               LET d == duration.v
                   startText == IF HasSeparator(d) THEN SideText(d, 1) ELSE d
               IN /\ (~MatchesAFormat(startText) /\ ~NamesNow(startText))
                         => parsed.start.t = "none"
                  /\ (/\ HasSeparator(d)
                      /\ ~MatchesAFormat(SideText(d, 2))
                      /\ ~NamesNow(SideText(d, 2)))
                         => parsed.end.t = "none"
                  /\ d = NotADate => (parsed.start.t = "none" /\ parsed.end.t = "none")

\* 'not a date - Jan 2020' was parsed: the start is None, the end is a date
C9_Witness ==
    /\ pc = "parsed"
    /\ duration.t = "str"
    /\ duration.v = NotADate \o Dash \o Jan2020
    /\ parsed.t = "tuple"
    /\ parsed.start.t = "none"
    /\ parsed.end.t = "datetime"

(* C10: with a separator present, a side that holds 'present' or 'current'   *)
(* in any letter case is the current time, whatever the other side is, and a *)
(* side that holds neither is what the date formats make of it alone:        *)
(* 'Jan 2020 - Present' gives (January 2020, now).                           *)
C10_PresentOrCurrentIsNow ==
    (pc = "parsed" /\ duration.t = "str" /\ HasSeparator(duration.v)) =>
        LET s1 == SideText(duration.v, 1)
            s2 == SideText(duration.v, 2)
        IN /\ NamesNow(s1) => IsNow(parsed.start)
           /\ NamesNow(s2) => IsNow(parsed.end)
           /\ ~NamesNow(s1) =>
                  /\ parsed.start.t = TryFormats(lower(s1), 1).t
                  /\ parsed.start.v = TryFormats(lower(s1), 1).v
           /\ ~NamesNow(s2) =>
                  /\ parsed.end.t = TryFormats(lower(s2), 1).t
                  /\ parsed.end.v = TryFormats(lower(s2), 1).v
           /\ duration.v = Jan2020 \o Dash \o <<"Present">> =>
                  /\ parsed.start.t = "datetime"
                  /\ parsed.start.v = <<2020, 1, 1>>
                  /\ IsNow(parsed.end)

\* 'Jan 2020 - Present' was parsed
C10_Witness ==
    /\ pc = "parsed"
    /\ duration.t = "str"
    /\ duration.v = Jan2020 \o Dash \o <<"Present">>
    /\ parsed.start.t = "datetime"
    /\ IsNow(parsed.end)

\* the text before the first occurrence of sep in d
Before(d, sep) == SubSeq(d, 1, FindFrom(d, sep, 1) - 1)

\* the text after the first occurrence of sep in d, up to the next one
After(d, sep) ==
    LET rest == SubSeq(d, FindFrom(d, sep, 1) + Len(sep), Len(d))
    IN IF In(sep, rest) THEN Before(rest, sep) ELSE rest

\* start and end are the parses of the texts on either side of the first sep
SplitOn(d, sep) ==
    /\ parsed.t = "tuple"
    /\ parsed.start.t = _parse_date(Str(Before(d, sep))).t
    /\ parsed.start.v = _parse_date(Str(Before(d, sep))).v
    /\ parsed.end.t = _parse_date(Str(After(d, sep))).t
    /\ parsed.end.v = _parse_date(Str(After(d, sep))).v

(* C11: a duration that holds ' - ' is split on its first ' - ', whether or   *)
(* not it also holds ' to '; ' to ' is the separator only when ' - ' is       *)
(* absent.                                                                    *)
C11_DashBeforeTo ==
    (pc = "parsed" /\ duration.t = "str") =>
        /\ In(Dash, duration.v) => SplitOn(duration.v, Dash)
        /\ (~In(Dash, duration.v) /\ In(To, duration.v)) => SplitOn(duration.v, To)

\* 'Jan 2020 to 2021 - Present' was parsed: 'Jan 2020 to 2021' is no date
C11_Witness ==
    /\ pc = "parsed"
    /\ duration.t = "str"
    /\ duration.v = Jan2020 \o To \o <<"2021">> \o Dash \o <<"Present">>
    /\ parsed.start.t = "none"
    /\ IsNow(parsed.end)

(* C12: a duration that holds neither separator is one date: start is what   *)
(* _parse_date makes of the whole text, end is the current time when the     *)
(* text holds 'present' in any letter case and None otherwise.               *)
C12_SingleDate ==
    (pc = "parsed" /\ duration.t = "str" /\ ~HasSeparator(duration.v)) =>
        /\ parsed.t = "tuple"
        /\ IF NamesNow(duration.v) THEN IsNow(parsed.start)
           ELSE /\ parsed.start.t = TryFormats(lower(strip(duration.v)), 1).t
                /\ parsed.start.v = TryFormats(lower(strip(duration.v)), 1).v
        /\ IF ContainsWord(lower(duration.v), "present") THEN IsNow(parsed.end)
           ELSE parsed.end.t = "none"

\* 'presently' was parsed: it holds 'present', so both ends are now
C12_Witness ==
    /\ pc = "parsed"
    /\ duration.t = "str"
    /\ duration.v = <<"presently">>
    /\ IsNow(parsed.start)
    /\ IsNow(parsed.end)

\* an instant in half days: midnight of the date, or later that day
Instant(x) == 2 * ToOrdinal(x.v) + x.tod

(* C13: _calculate_period_months is None when start or end is None, 0 when    *)
(* end <= start, and otherwise the whole days from start to end divided by    *)
(* 30.44 and truncated: the largest m with m * 30.44 <= days.                 *)
C13_PeriodMonthsReference ==
    pc = "period_months" =>
        IF parsed.start.t = "none" \/ parsed.end.t = "none"
        THEN period_months.t = "none"
        ELSE IF Instant(parsed.end) <= Instant(parsed.start)
        THEN period_months.t = "int" /\ period_months.v = 0
        ELSE /\ period_months.t = "int"
             /\ period_months.v >= 0
             /\ \E days \in 0..4000 :
                    /\ Instant(parsed.start) + 2 * days <= Instant(parsed.end)
                    /\ Instant(parsed.end) < Instant(parsed.start) + 2 * (days + 1)
                    /\ period_months.v * 3044 <= days * 100
                    /\ days * 100 < (period_months.v + 1) * 3044

\* 'Jan 2020 - 03/2021' is 425 days, 13.96 months of 30.44 days: 13
C13_Witness ==
    /\ pc = "period_months"
    /\ duration.t = "str"
    /\ duration.v = Jan2020 \o Dash \o <<"03", "/", "2021">>
    /\ period_months.t = "int"
    /\ period_months.v = 13

\* the trimmed tokens of a comma-separated text
Tokens(text) ==
    {strip(split(text, <<",">>)[k]) : k \in 1..Len(split(text, <<",">>))}

\* the skill names the 'technologies' field of a record stands for
Contribution(rec) ==
    IF rec.technologies.t = "str" /\ rec.technologies.v # <<>>
    THEN Tokens(rec.technologies.v)
    ELSE IF rec.technologies.t = "list"
    THEN {rec.technologies.v[k] : k \in 1..Len(rec.technologies.v)}
    ELSE {}

\* the skill names of the internship text
InternshipTokens ==
    IF data.internship.t = "str" /\ data.internship.v # <<>>
    THEN Tokens(data.internship.v) ELSE {}

(* C14: extract_skills_periods never raises, and the names it records are    *)
(* those of the records' 'technologies' fields (the trimmed tokens of a      *)
(* string, the items of a list, nothing for a missing, empty or other-typed  *)
(* field) together with the internship tokens; a record that contributes     *)
(* nothing does not stop the records after it.                               *)
C14_TechnologiesContribute ==
    [][pc = "extract_skills_periods" =>
          /\ pc' = "sum_skills_periods"
          /\ {skills_periods_list'[k].k : k \in 1..Len(skills_periods_list')}
                 = UNION {Contribution(Sections[n]) : n \in 1..Len(Sections)}
                   \cup InternshipTokens]_vars

\* extraction went over a number-typed field and over the projects without
\* technologies, and recorded the skill of the project after them
C14_Witness ==
    /\ pc = "sum_skills_periods"
    /\ i = 1
    /\ Len(data.work_experience.v) = 1
    /\ data.work_experience.v[1].technologies.t = "int"
    /\ Len(data.projects.v) = 3
    /\ data.projects.v[1].technologies.t = "absent"
    /\ data.projects.v[2].technologies.t = "list"
    /\ data.projects.v[2].technologies.v = <<>>
    /\ data.internship.t = "absent"
    /\ Len(skills_periods_list) = 1
    /\ skills_periods_list[1].k = Jira

\* two Python values are the same
SameValue(a, b) == a.t = b.t /\ a.v = b.v

\* extract_skills_periods has returned
Extracted == pc \in {"sum_skills_periods", "update_existing_skills", "done"}

(* C15: every pair extract_skills_periods returns for a skill of a work or   *)
(* project record carries the 'period' of such a record, or 'N/A' when the   *)
(* record has no 'period' key (internship skills carry 'N/A').               *)
C15_PeriodOrSentinel ==
    Extracted =>
        \A k \in 1..Len(skills_periods_list) :
            \/ \E n \in 1..Len(Sections) :
                   /\ skills_periods_list[k].k \in Contribution(Sections[n])
                   /\ SameValue(skills_periods_list[k].v,
                                IF Sections[n].period.t = "absent" THEN NA
                                ELSE Sections[n].period)
            \/ /\ skills_periods_list[k].k \in InternshipTokens
               /\ SameValue(skills_periods_list[k].v, NA)

\* the skill names of the work and project records
FromSections == UNION {Contribution(Sections[n]) : n \in 1..Len(Sections)}

\* the period extract_skills_periods reads from a record
PeriodRead(rec) == IF rec.period.t = "absent" THEN Str(<<>>) ELSE rec.period

(* C16: with an internship text, every one of its skills is recorded exactly  *)
(* once; a name that a work or project record contributed keeps a period of   *)
(* such a record, and only the other names carry 'N/A'.                       *)
C16_InternshipOnlyAddsNewNames ==
    (Extracted /\ data.internship.t = "str") =>
        /\ \A token \in InternshipTokens :
               \E k \in 1..Len(skills_periods_list) :
                   /\ skills_periods_list[k].k = token
                   /\ \A j \in 1..Len(skills_periods_list) :
                          skills_periods_list[j].k = token => j = k
        /\ \A k \in 1..Len(skills_periods_list) :
               IF skills_periods_list[k].k \in FromSections
               THEN \E n \in 1..Len(Sections) :
                        /\ skills_periods_list[k].k \in Contribution(Sections[n])
                        /\ SameValue(skills_periods_list[k].v, PeriodRead(Sections[n]))
               ELSE SameValue(skills_periods_list[k].v, NA)

\* 'Java' came with a period from a record and again from the internship
\* text 'Java, SQL,SQL': it kept the period, and 'SQL' was recorded once
C16_Witness ==
    /\ Extracted
    /\ data.internship.t = "str"
    /\ Java \in FromSections
    /\ SQL \notin FromSections
    /\ \E k \in 1..Len(skills_periods_list) :
           skills_periods_list[k].k = Java /\ skills_periods_list[k].v.t = "list"
    /\ \E k \in 1..Len(skills_periods_list) :
           /\ skills_periods_list[k].k = SQL
           /\ SameValue(skills_periods_list[k].v, NA)

(* C17: an iteration of sum_skills_periods on a pair whose period is no       *)
(* triple ('N/A', a marker of calculate_date_difference) does not raise,      *)
(* leaves every cluster as it was, starts at most one cluster, with the sum   *)
(* (0, 0, 0), and goes on to the next pair.                                   *)
C17_SentinelCountsAsZero ==
    [][(/\ pc = "sum_skills_periods"
        /\ i <= Len(skills_periods_list)
        /\ skills_periods_list[i].v.t # "list") =>
          /\ pc' = "sum_skills_periods"
          /\ i' = i + 1
          /\ Len(summed_skills') \in {Len(summed_skills), Len(summed_skills) + 1}
          /\ \A k \in 1..Len(summed_skills) : summed_skills'[k] = summed_skills[k]
          /\ Len(summed_skills') > Len(summed_skills) =>
                 summed_skills'[Len(summed_skills')].v = <<0, 0, 0>>]_vars

\* the records of results[0], as process returned them
SectionsBefore == results0.work_experience.v \o results0.projects.v

\* a (years, months, days) triple of integers
IsTriple(x) == x.t = "list" /\ Len(x.v) = 3 /\ \A k \in 1..3 : x.v[k] \in Int

(* C18: after add_period_field every record with a non-empty duration has a   *)
(* 'period' that is a triple of integers, a record without one has no         *)
(* 'period', and the other fields of every record are as they were.           *)
C18_PeriodIsTriple ==
    pc \notin {"add_period_field", "error"} =>
        /\ Len(Sections) = Len(SectionsBefore)
        /\ \A n \in 1..Len(Sections) :
               /\ SameValue(Sections[n].duration, SectionsBefore[n].duration)
               /\ SameValue(Sections[n].technologies, SectionsBefore[n].technologies)
               /\ IF Truthy(Sections[n].duration)
                  THEN IsTriple(Sections[n].period)
                  ELSE Sections[n].period.t = "absent"

\* one of the messages calculate_date_difference returns instead of a period
IsMarker(x) == x.t = "str" /\ x.v \in {NoValidDates.v, NoEndDate.v}

(* C18, amended: after add_period_field every record with a non-empty         *)
(* duration has a 'period' that is a triple of integers or, when the duration *)
(* does not give two dates, one of the two messages; a record without a       *)
(* duration has no 'period', and the other fields are as they were.           *)
C18_PeriodIsTripleOrMarker ==
    pc \notin {"add_period_field", "error"} =>
        /\ Len(Sections) = Len(SectionsBefore)
        /\ \A n \in 1..Len(Sections) :
               /\ SameValue(Sections[n].duration, SectionsBefore[n].duration)
               /\ SameValue(Sections[n].technologies, SectionsBefore[n].technologies)
               /\ IF Truthy(Sections[n].duration)
                  THEN IsTriple(Sections[n].period) \/ IsMarker(Sections[n].period)
                  ELSE Sections[n].period.t = "absent"

\* add_period_field went over a record whose duration is no date and over
\* one without a duration
C18_Witness ==
    /\ pc = "format_skills"
    /\ Len(data.work_experience.v) = 2
    /\ data.work_experience.v[1].duration.t = "str"
    /\ data.work_experience.v[1].duration.v = NotADate
    /\ SameValue(data.work_experience.v[1].period, NoValidDates)
    /\ data.work_experience.v[2].duration.t = "absent"
    /\ data.work_experience.v[2].period.t = "absent"

\* the names of the flat 'skills' list of results[0]
FlatSkills == {results0.skills.v[k] : k \in 1..Len(results0.skills.v)}

\* the value of the key name in the 'skills' mapping
SkillValue(name) == data.skills.v[KeyIndex(data.skills.v, name)].v

(* C19: with a flat 'skills' list, format_skills makes it the mapping of its  *)
(* names to 'N/A' and so it stays until the merge; flat skills that no        *)
(* section names are in no pair handed to sum_skills_periods; and when the    *)
(* pipeline is done 'skills' is a mapping in which every flat skill that no   *)
(* aggregated record is similar to (similarity below 0.5 to each) is 'N/A'.   *)
C19_FlatSkillsStayNA ==
    results0.skills.t = "list" =>
        /\ pc \in {"extract_skills_periods", "sum_skills_periods"} =>
               /\ data.skills.t = "dict"
               /\ {data.skills.v[k].k : k \in 1..Len(data.skills.v)} = FlatSkills
               /\ \A k \in 1..Len(data.skills.v) : SameValue(data.skills.v[k].v, NA)
        /\ Extracted =>
               \A k \in 1..Len(skills_periods_list) :
                   skills_periods_list[k].k \in FromSections \cup InternshipTokens
        /\ pc = "done" =>
               /\ data.skills.t = "dict"
               /\ \A name \in FlatSkills :
                      /\ HasKey(data.skills.v, name)
                      /\ (\A r \in 1..Len(summed_skills) :
                             ~SimilarityAtLeast(summed_skills[r].k, name, UpdateThreshold))
                            => SameValue(SkillValue(name), NA)

\* the pipeline is done for the flat list ['SQL', 'Jira']: a record matched
\* 'SQL', none matched 'Jira', and a record without a match was added
C19_Witness ==
    /\ pc = "done"
    /\ results0.skills.t = "list"
    /\ results0.skills.v = <<SQL, Jira>>
    /\ SameValue(SkillValue(Jira), NA)
    /\ ~SameValue(SkillValue(SQL), NA)
    /\ Len(data.skills.v) > 2

(* C20: when the value handed to the pipeline is no dict, the request does    *)
(* not end with a response built from it: neither {"data": ...} nor           *)
(* {"message": ...} is sent.                                                  *)
C20_NonDictEndsInError ==
    ~isinstance_dict(results0) => pc \notin {"done", "message"}

\* the iteration matched the record to a key: no key was added
StepMatched == Len(data'.skills.v) = Len(data.skills.v)

(* C21: for every threshold t, an iteration of update_existing_skills        *)
(* matches the record to a key exactly when some key has similarity at       *)
(* least t to the record's name; a match at t is a match at every lower      *)
(* threshold; and names the aggregator merges at 0.8 are within the          *)
(* merger's default 0.5.                                                     *)
C21_ThresholdIsMinimumSimilarity ==
    [][UpdateStepTaken =>
        LET skill == summed_skills[i].k
            keys == Keys(data.skills.v)
        IN /\ StepMatched <=>
                  \E k \in 1..Len(keys) : SimilarityAtLeast(skill, keys[k], threshold)
           /\ StepMatched =>
                  \A lower_t \in Thresholds :
                      ScoreLess(lower_t, threshold) =>
                          Len(update_skills_step(data.skills.v, skill, summed_skills[i].v,
                                                 lower_t).skills) = Len(keys)
           /\ \A k \in 1..Len(keys) :
                  WithinOneMinus(NormalizedScore(skill, keys[k]), SumThreshold)
                      => WithinThreshold(NormalizedScore(skill, keys[k]), UpdateThreshold)]_vars

(* C22: enhance_skills never lets an exception out: a step that fails is      *)
(* followed by the return of resume_data, the mapping the call was given      *)
(* (with what the steps before the failure stored in it, and without          *)
(* 'enhanced_skills'), and process_resume goes on to build final_result.      *)
C22_EnhanceSkillsNeverRaises ==
    /\ [](pc \notin {"raised", "failed"})
    /\ [][pc = "except" =>
            /\ pc' = "returned"
            /\ enhanced_data' = data
            /\ isinstance_dict(results0) =>
                  /\ DOMAIN enhanced_data' = DOMAIN results0
                  /\ enhanced_data'.enhanced_skills = Absent
                  /\ enhanced_data'.experience.t = "absent"
                         <=> results0.experience.t = "absent"
                  /\ enhanced_data'.skills.t = "absent" <=> results0.skills.t = "absent"]_vars
    /\ [][pc = "returned" => pc' = "final_result"]_vars

\* the update step failed on a skill that is no str after a group had been
\* given its months, and process_resume still completed with resume_data
C22_Witness ==
    /\ pc = "final_result"
    /\ isinstance_dict(enhanced_data)
    /\ enhanced_data.enhanced_skills = Absent
    /\ summed_skills # <<>>
    /\ enhanced_data.skills.t = "list"
    /\ \E k \in 1..Len(enhanced_data.skills.v) :
           /\ enhanced_data.skills.v[k].experience_months.t = "int"
           /\ \E n \in 1..Len(enhanced_data.skills.v[k].skills.v) :
                  enhanced_data.skills.v[k].skills.v[n].t # "str"

\* the records that name the skill in their 'technologies'
Mentions(name) == {n \in 1..Len(Sections) : name \in Contribution(Sections[n])}

RECURSIVE MentionedTotal(_, _)
\* the component-wise sum of the periods of the records up to n that name it
MentionedTotal(name, n) ==
    IF n = 0 THEN <<0, 0, 0>>
    ELSE IF n \in Mentions(name)
    THEN PlusPeriod(MentionedTotal(name, n - 1), Sections[n].period.v)
    ELSE MentionedTotal(name, n - 1)

(* C23: a skill named verbatim by several work or project records whose      *)
(* periods are triples reaches sum_skills_periods as one pair per record,    *)
(* and when no other name is merged with it the aggregated total of the      *)
(* skill is the component-wise sum of those records' periods.                *)
C23_VerbatimDuplicatesSummed ==
    Extracted =>
        \A name \in FromSections \ InternshipTokens :
            (\A n \in Mentions(name) : Sections[n].period.t = "list") =>
                /\ Cardinality({k \in 1..Len(skills_periods_list) :
                                   skills_periods_list[k].k = name})
                       = Cardinality(Mentions(name))
                /\ ( /\ pc \in {"update_existing_skills", "done"}
                     /\ \A k \in 1..Len(skills_periods_list) :
                            skills_periods_list[k].k # name =>
                                ~SimilarityAtLeast(skills_periods_list[k].k, name, <<7, 10>>) )
                   => \E c \in 1..Len(summed_skills) :
                          /\ summed_skills[c].k = name
                          /\ summed_skills[c].v = MentionedTotal(name, Len(Sections))

\* every pair of skills_periods_list carries a triple of numbers
AllTriples ==
    \A k \in 1..Len(skills_periods_list) :
        skills_periods_list[k].v.t = "list" /\ Len(skills_periods_list[k].v.v) = 3

RECURSIVE PairsTotal(_)
\* the component-wise sum of the periods of the first n pairs
PairsTotal(n) ==
    IF n = 0 THEN <<0, 0, 0>>
    ELSE PlusPeriod(PairsTotal(n - 1), skills_periods_list[n].v.v)

RECURSIVE ClustersTotal(_, _)
\* the component-wise sum of the periods of the first n clusters
ClustersTotal(summed, n) ==
    IF n = 0 THEN <<0, 0, 0>>
    ELSE PlusPeriod(ClustersTotal(summed, n - 1), summed[n].v)

(* C24: when every pair carries a triple, each iteration of                  *)
(* sum_skills_periods adds the pair's period to exactly one cluster (an      *)
(* existing one, or a new one begun at zero) and leaves the others alone,    *)
(* and after any number of iterations the clusters' periods add up to the    *)
(* periods of the pairs processed.                                           *)
C24_PeriodsConserved ==
    /\ [][(pc = "sum_skills_periods" /\ i <= Len(skills_periods_list) /\ AllTriples) =>
            /\ SumStepTaken
            /\ \E c \in 1..Len(summed_skills') :
                   /\ Len(summed_skills') = IF c > Len(summed_skills)
                                            THEN Len(summed_skills) + 1
                                            ELSE Len(summed_skills)
                   /\ summed_skills'[c].v =
                          PlusPeriod(IF c > Len(summed_skills) THEN <<0, 0, 0>>
                                     ELSE summed_skills[c].v,
                                     skills_periods_list[i].v.v)
                   /\ \A o \in 1..Len(summed_skills) :
                          o # c => summed_skills'[o] = summed_skills[o]]_vars
    /\ []((pc = "sum_skills_periods" /\ AllTriples) =>
             /\ i >= 1
             /\ ClustersTotal(summed_skills, Len(summed_skills)) = PairsTotal(i - 1))

\* four pairs were summed into fewer clusters, more than one
C24_Witness ==
    /\ pc = "sum_skills_periods"
    /\ AllTriples
    /\ i = 5
    /\ Len(skills_periods_list) = 4
    /\ Len(summed_skills) \in {2, 3}

(* C25: a pair whose best similarity to a cluster is exactly the threshold   *)
(* 0.8 (normalized distance exactly 1/5, as for a 5-character name at edit   *)
(* distance 1 from a 5-character cluster name) is merged into that cluster:  *)
(* the iteration starts no new cluster.                                      *)
C25_ExactThresholdMerges ==
    [][(SumStepTaken /\ best_match' # 0 /\ best_score'[1] * 5 = best_score'[2]) =>
          /\ Len(summed_skills') = Len(summed_skills)
          /\ ~HasKey(summed_skills', skills_periods_list[i].k)
                 \/ HasKey(summed_skills, skills_periods_list[i].k)]_vars

(* C26: no pair returned by extract_skills_periods has the empty string as   *)
(* its skill name.                                                           *)
C26_SkillNamesNonEmpty ==
    Extracted => \A k \in 1..Len(skills_periods_list) : skills_periods_list[k].k # <<>>

(* C27: when the handler is done, the period string of every aggregated      *)
(* record is the value of some key of the skills map.                        *)
C27_NoTotalLost ==
    (pc = "done" /\ data.skills.t = "dict") =>
        \A r \in 1..Len(summed_skills) :
            \E k \in 1..Len(data.skills.v) :
                SameValue(data.skills.v[k].v, JoinPeriod(summed_skills[r].v))

----------------------------------------------------------------------------
\* request r ends in this step
Finishes(r) == req[r].pc # "finished" /\ req'[r].pc = "finished"

\* C28: whatever the outcome, the step in which a handler finishes leaves no
\* file at its pdf_path, afterwards no file of the temp directory is the one
\* the request created, and the directory is removed only in a step that
\* leaves no file in it (so no file is ever left without its directory).
C28_UploadRemovedDirOnlyWhenEmpty ==
    /\ [](\A r \in Requests :
             req[r].pc = "finished" => \A name \in Filenames : fs.link[name] # r)
    /\ [](~fs.dir => \A name \in Filenames : fs.link[name] = 0)
    /\ [][/\ \A r \in Requests : Finishes(r) => fs'.link[req[r].filename] = 0
          /\ fs.dir /\ ~fs'.dir => \A name \in Filenames : fs'.link[name] = 0]_vars

\* both handlers have finished after saving their files, one with an answer
\* and one with a processing exception, and the directory is gone
C28_Witness ==
    /\ \A r \in Requests : req[r].pc = "finished" /\ req[r].fd # 0
    /\ \E r \in Requests : req[r].status = "ok"
    /\ \E r \in Requests : req[r].status = "error" /\ req[r].processed.state = "read"
    /\ ~fs.dir

\* a handler ends with HTTP 500 after its file was saved, and the directory
\* stays because the file of the other request is still in it
C28_WitnessDirKept ==
    /\ \E r \in Requests :
          /\ req[r].pc = "finished" /\ req[r].fd # 0 /\ req[r].status = "http_error"
          /\ fs.link[req[r].filename] = 0
    /\ fs.dir
    /\ \E name \in Filenames : fs.link[name] # 0

\* C29: under every interleaving of two requests at their await points, a
\* request that got as far as saving or reading its file processed exactly
\* the bytes it uploaded.
C29_ProcessesOwnBytes ==
    \A r \in Requests :
        req[r].processed.state # "unread" =>
            req[r].processed = [state |-> "read", bytes |-> req[r].content]

----------------------------------------------------------------------------
\* how many times the call did what
Did(what) == Cardinality({k \in 1..Len(llama.log) : llama.log[k] = what})

\* at most max_retries attempts; a sleep only between two attempts; the
\* fallback at most once, last, and only after max_retries failed attempts;
\* a return from an attempt gives that attempt's text
LlamaRetryDiscipline ==
    /\ Did("attempt") <= llama.max_retries
    /\ \A k \in 1..Len(llama.log) :
          /\ llama.log[k] = "sleep" =>
                /\ k > 1 /\ llama.log[k - 1] = "attempt"
                /\ k < Len(llama.log) => llama.log[k + 1] = "attempt"
                /\ k = Len(llama.log) => llama.pc \in {"sleep", "attempt"}
          /\ llama.log[k] = "fallback" =>
                /\ k = Len(llama.log)
                /\ Len(llama.errors) = llama.max_retries
                /\ Did("attempt") = llama.max_retries
    /\ Did("fallback") <= 1
    /\ llama.pc = "returned" =>
          /\ llama.returned.t = "str"
          /\ Did("fallback") = 0 =>
                /\ llama.returned.v # <<>>
                /\ Len(llama.errors) = Did("attempt") - 1
          /\ Did("fallback") = 1 => llama.returned.v \in PdfminerTexts \cup {<<>>}

\* C30: extract_text_with_llama never raises, and it keeps the retry
\* discipline: at most max_retries attempts, the first result returned at
\* once, sleeps only between attempts, one fallback after all attempts
\* failed, the empty string when the fallback fails.
C30_NeverRaisesAndRetryDiscipline ==
    /\ llama.pc # "raised"
    /\ LlamaRetryDiscipline
====
